---- MODULE Spec2Model ----
(***************************************************************************)
(* Model of the Wasteland gameplay core: Player (ammo, firing, reload,     *)
(* projectiles), Environment (chunk streaming and loot), ZombieManager     *)
(* (spawner, hostiles) and the GameApp frame callback that ties them       *)
(* together.  Geometry (ray/mesh and mesh/mesh intersection, movement) is  *)
(* an input of each frame; everything else is computed as the code does.   *)
(*                                                                         *)
(* Units: time in milliseconds, health in 1/100 of a health point,         *)
(* spawnInterval in microseconds, positions in world units.                *)
(***************************************************************************)
EXTENDS Integers, Sequences, FiniteSets, TLC

VARIABLES
    \* Player
    health, currentAmmo, reserveAmmo, isReloading, sinceShot, mouseLeft,
    bullets, reloadTimer, pos, pitch,
    \* Environment
    chunks, obstacles, healthPacks, ammoPacks, chunksCreated, disposedMeshes,
    \* ZombieManager
    zombies, spawnTimer, spawnInterval, envGround, zombiesCreated,
    \* GameApp
    score, isGameOver, isPaused, renderLoop, gameOverCalls,
    \* the numbers on healthLabel and ammoLabel
    healthLabel, ammoLabel,
    \* history of the last step, for stating the properties
    step, ticks, killed, fireLog, hitLog, envLog, pickLog, spawnLog, touchLog,
    \* MobileControlsManager: the layout, the text under STORAGE_KEY, editMode
    layout, storage, editMode,
    \* history: an exception left the constructor, the layout of the last
    \* saveLayout, the number of edits made
    raised, saved, edits

playerVars == <<health, currentAmmo, reserveAmmo, isReloading, sinceShot,
                mouseLeft, bullets, reloadTimer, pos, pitch>>
envVars == <<chunks, obstacles, healthPacks, ammoPacks, chunksCreated,
             disposedMeshes>>
zombieVars == <<zombies, spawnTimer, spawnInterval, envGround, zombiesCreated>>
appVars == <<score, isGameOver, isPaused, renderLoop, gameOverCalls,
             healthLabel, ammoLabel>>
logVars == <<killed, fireLog, hitLog, envLog, pickLog, spawnLog, touchLog>>

controlsVars == <<layout, storage, editMode, raised, saved, edits>>
gameVars == <<playerVars, envVars, zombieVars, appVars, ticks, logVars>>

vars == <<playerVars, envVars, zombieVars, appVars, step, ticks, logVars,
          controlsVars>>

(***************************************************************************)
(* Program constants                                                       *)
(***************************************************************************)
maxMagAmmo == 20
InitialReserveAmmo == 60
InitialHealth == 10000
MaxHealth == 10000
HealthPackRestore == 2500
AmmoPackAmount == 20
fireRate == 150
ReloadDelay == 1500
lifeTime == 2000
chunkSize == 60
loadDistance == 2
InitialSpawnInterval == 2500000
MinSpawnInterval == 500000
maxZombies == 100
MaxProbeAttempts == 10
BulletDamage == 1
\* cameraRoot.rotation.x in 1/1000 rad: the open interval of the pointer-move
\* test, the turn of one shot, the turn per unit of movementY
PitchLimit == 1500
Recoil == 20
LookStep == 2
InitialHealthLabel == 100
InitialAmmoLabel == 20
ScaleStep == 10
MaxControlSize == 250
MinControlSize == 40

(***************************************************************************)
(* Bounds of the model                                                     *)
(***************************************************************************)
MaxChunksCreated == 60
MaxHostiles == 2
MaxSpawned == 3
MaxReserve == 100
MaxEnvTicks == 2
MaxPickupTicks == 4
MaxLootTicks == 3
MaxCrowdTicks == 104
MaxBarrenTicks == 165
MaxSessionTicks == 4
MaxFireTicks == 5
MaxCombatTicks == 4
MaxEdits == 2
MaxOrderTicks == 2
MaxDamageTicks == 3
MaxSpawnTimer == 6000
MaxTypesTicks == 22
MaxFlashTicks == 14
MaxLookTicks == 4
ReloadAt == {0, 10, maxMagAmmo}
ReloadAtSession == {maxMagAmmo - 2, maxMagAmmo - 1}

(***************************************************************************)
(* Generic helpers                                                         *)
(***************************************************************************)
Min(a, b) == IF a < b THEN a ELSE b
Max(a, b) == IF a > b THEN a ELSE b
Range(s) == {s[i] : i \in 1..Len(s)}
RemoveAt(s, i) == SubSeq(s, 1, i - 1) \o SubSeq(s, i + 1, Len(s))

\* (mutant) truncation towards -infinity in place of rounding
RoundDown(n, d) == n \div d

\* Math.round(n / d) for d > 0: the nearest integer, halves towards +infinity
Round(n, d) == (2 * n + d) \div (2 * d)

(***************************************************************************)
(* Environment: chunk streaming                                            *)
(***************************************************************************)
\* A mesh is the number 100 * (owning chunk) + (code within the chunk):
\* 0 the ground, 1 the health pack, 2 the ammo pack, 10 * b building b,
\* 10 * b + n the n-th debris box of building b
GroundMesh(cid) == 100 * cid
HealthPackMesh(cid) == 100 * cid + 1
AmmoPackMesh(cid) == 100 * cid + 2
BuildingMesh(cid, b) == 100 * cid + 10 * b
DebrisMesh(cid, b, n) == 100 * cid + 10 * b + n
MeshOwner(m) == m \div 100

\* Chunk.generateObstacles / createDebris: 2..4 buildings, each followed by
\* 0..2 debris boxes; the Math.random() draws are the outcome pattern `seed`
NumBuildings(x, z, seed) == 2 + ((x + z + seed) % 3)
DebrisCount(x, z, seed, b) == (x + 2 * z + b + seed) % 3

RECURSIVE DebrisOf(_, _, _)
DebrisOf(cid, b, n) ==
    IF n = 0 THEN <<>>
    ELSE Append(DebrisOf(cid, b, n - 1), DebrisMesh(cid, b, n))

RECURSIVE GenerateObstacles(_, _, _, _, _)
GenerateObstacles(cid, x, z, seed, b) ==
    IF b = 0 THEN <<>>
    ELSE GenerateObstacles(cid, x, z, seed, b - 1)
         \o <<BuildingMesh(cid, b)>>
         \o DebrisOf(cid, b, DebrisCount(x, z, seed, b))

\* Chunk.generateLoot: at most one health pack and one ammo pack per chunk
HasHealthPack(x, z, seed) == (x + 2 * z + seed) % 3 = 0
HasAmmoPack(x, z, seed) == (x + z + seed) % 2 = 0

\* new Chunk(scene, x, z, size, ...)
NewChunk(cid, x, z, seed) ==
    [id |-> cid,
     ground |-> GroundMesh(cid),
     obstacles |-> GenerateObstacles(cid, x, z, seed, NumBuildings(x, z, seed)),
     healthPacks |-> IF HasHealthPack(x, z, seed)
                     THEN <<HealthPackMesh(cid)>> ELSE <<>>,
     ammoPacks |-> IF HasAmmoPack(x, z, seed)
                   THEN <<AmmoPackMesh(cid)>> ELSE <<>>]

\* every mesh a chunk owns (Chunk.meshes)
ChunkMeshes(ch) ==
    {ch.ground} \cup Range(ch.obstacles) \cup Range(ch.healthPacks)
                \cup Range(ch.ammoPacks)

CenterChunk(p) == <<Round(p[1], chunkSize), Round(p[2], chunkSize)>>

\* the keys visited by the nested loops of Environment.update, in loop order
RECURSIVE KeysFrom(_, _, _, _)
KeysFrom(cx, cz, x, z) ==
    IF x > cx + loadDistance THEN <<>>
    ELSE IF z > cz + loadDistance THEN KeysFrom(cx, cz, x + 1, cz - loadDistance)
    ELSE <<(<<x, z>>)>> \o KeysFrom(cx, cz, x, z + 1)

ActiveKeys(p) ==
    LET c == CenterChunk(p)
    IN  KeysFrom(c[1], c[2], c[1] - loadDistance, c[2] - loadDistance)

\* the environment as one value
EnvState(ch, ob, hp, ap, n, dm) ==
    [chunks |-> ch, obstacles |-> ob, healthPacks |-> hp, ammoPacks |-> ap,
     created |-> n, disposed |-> dm]

\* Environment.createChunk
createChunk(e, key, seed) ==
    LET chunk == NewChunk(e.created + 1, key[1], key[2], seed)
    IN  [e EXCEPT !.chunks = [k \in DOMAIN e.chunks \cup {key} |->
                                 IF k = key THEN chunk ELSE e.chunks[k]],
                  !.obstacles = e.obstacles \o chunk.obstacles,
                  !.healthPacks = e.healthPacks \o chunk.healthPacks,
                  !.ammoPacks = e.ammoPacks \o chunk.ammoPacks,
                  !.created = e.created + 1]

\* (mutant) a disposeChunk that leaves the aggregate lists as they are
disposeChunkNoFilter(e, key) ==
    IF key \notin DOMAIN e.chunks THEN e
    ELSE LET chunk == e.chunks[key]
         IN  [e EXCEPT !.disposed = e.disposed \cup ChunkMeshes(chunk),
                       !.chunks = [k \in DOMAIN e.chunks \ {key} |-> e.chunks[k]]]

\* Environment.disposeChunk with Chunk.dispose
disposeChunk(e, key) ==
    IF key \notin DOMAIN e.chunks THEN e
    ELSE LET chunk == e.chunks[key]
             keepO(m) == m \notin Range(chunk.obstacles)
             keepH(m) == m \notin Range(chunk.healthPacks)
             keepA(m) == m \notin Range(chunk.ammoPacks)
         IN  [e EXCEPT !.obstacles = SelectSeq(e.obstacles, keepO),
                       !.healthPacks = SelectSeq(e.healthPacks, keepH),
                       !.ammoPacks = SelectSeq(e.ammoPacks, keepA),
                       !.disposed = e.disposed \cup ChunkMeshes(chunk),
                       !.chunks = [k \in DOMAIN e.chunks \ {key} |-> e.chunks[k]]]

\* (mutant) the first loop without the chunks.has(key) test
RECURSIVE CreateAll(_, _, _, _)
CreateAll(e, keys, i, seed) ==
    IF i > Len(keys) THEN e
    ELSE CreateAll(createChunk(disposeChunk(e, keys[i]), keys[i], seed),
                   keys, i + 1, seed)

\* first loop of Environment.update: create the missing chunks
RECURSIVE CreateMissing(_, _, _, _)
CreateMissing(e, keys, i, seed) ==
    IF i > Len(keys) THEN e
    ELSE CreateMissing(IF keys[i] \in DOMAIN e.chunks THEN e
                       ELSE createChunk(e, keys[i], seed),
                       keys, i + 1, seed)

\* (mutant) a second loop that disposes nothing
DisposeNone(e, stale) == e

\* second loop of Environment.update: dispose the chunks not in activeKeys
RECURSIVE DisposeStale(_, _)
DisposeStale(e, stale) ==
    IF stale = {} THEN e
    ELSE LET key == CHOOSE k \in stale : TRUE
         IN  DisposeStale(disposeChunk(e, key), stale \ {key})

\* Environment.update(playerPos)
EnvUpdate(e, p, seed) ==
    LET keys == ActiveKeys(p)
        e1 == CreateMissing(e, keys, 1, seed)
    IN  DisposeStale(e1, DOMAIN e1.chunks \ Range(keys))

\* Environment.getGroundMeshes
getGroundMeshes(e) == {e.chunks[k].ground : k \in DOMAIN e.chunks}

EmptyEnv == EnvState(<<>>, <<>>, <<>>, <<>>, 0, {})

(***************************************************************************)
(* Player: firing, reload, projectiles                                     *)
(***************************************************************************)
\* now - lastShotTime is kept up to this value; beyond it the fire-rate test
\* gives the same answer
SinceShotCap == fireRate + 1

NewBullet == [life |-> lifeTime, isDead |-> FALSE]

PlayerState(a, r, rl, ss, bs, rx) ==
    [currentAmmo |-> a, reserveAmmo |-> r, isReloading |-> rl,
     sinceShot |-> ss, bullets |-> bs, pitch |-> rx]

\* (mutant) a shot that takes two rounds
shootTwoRounds(p) ==
    [p EXCEPT !.currentAmmo = p.currentAmmo - 2,
              !.bullets = Append(p.bullets, NewBullet),
              !.pitch = p.pitch - Recoil]

\* Player.shoot: one round leaves the magazine, one Bullet is pushed, and the
\* recoil turns cameraRoot by 0.02 rad
shoot(p) ==
    [p EXCEPT !.currentAmmo = p.currentAmmo - 1,
              !.bullets = Append(p.bullets, NewBullet),
              !.pitch = p.pitch - Recoil]

\* (mutant) the condition without the fire-rate test
CanFireNoRate(p, held, tie) ==
    /\ held
    /\ ~p.isReloading
    /\ p.currentAmmo > 0

\* The condition under which Player.handleShooting calls shoot().  now and
\* lastShotTime are Date.now() / 1000, two doubles: when exactly fireRate ms
\* lie between the two readings, the difference of the quotients comes out on
\* either side of 0.15, and tie is the outcome of the comparison then.
CanFire(p, held, tie) ==
    /\ held
    /\ ~p.isReloading
    /\ p.currentAmmo > 0
    /\ \/ p.sinceShot > fireRate
       \/ p.sinceShot = fireRate /\ tie

\* (mutant) handleShooting without the !isReloading test
handleShootingReloading(p, held, tie) ==
    IF CanFire([p EXCEPT !.isReloading = FALSE], held, tie)
    THEN [shoot(p) EXCEPT !.sinceShot = 0] ELSE p

\* Player.handleShooting
handleShooting(p, held, tie) ==
    IF CanFire(p, held, tie) THEN [shoot(p) EXCEPT !.sinceShot = 0] ELSE p

\* (mutant) a lifetime that has to fall below 0
BulletUpdateStrict(b, dt) ==
    IF b.isDead THEN [b |-> b, gone |-> TRUE]
    ELSE LET l == b.life - dt
         IN  IF l < 0 THEN [b |-> [life |-> l, isDead |-> TRUE], gone |-> TRUE]
             ELSE [b |-> [b EXCEPT !.life = l], gone |-> FALSE]

\* Bullet.update(dt): TRUE in .gone when the bullet is to be removed
BulletUpdate(b, dt) ==
    IF b.isDead THEN [b |-> b, gone |-> TRUE]
    ELSE LET l == b.life - dt
         IN  IF l <= 0 THEN [b |-> [life |-> l, isDead |-> TRUE], gone |-> TRUE]
             ELSE [b |-> [b EXCEPT !.life = l], gone |-> FALSE]

\* (mutant) updateBullets without the splice
RECURSIVE updateBulletsKeep(_, _, _)
updateBulletsKeep(bs, i, dt) ==
    IF i = 0 THEN bs
    ELSE LET u == BulletUpdate(bs[i], dt)
         IN  updateBulletsKeep([bs EXCEPT ![i] = u.b], i - 1, dt)

\* Player.updateBullets: backwards loop, splice of every bullet whose update
\* returned true
RECURSIVE updateBullets(_, _, _)
updateBullets(bs, i, dt) ==
    IF i = 0 THEN bs
    ELSE LET u == BulletUpdate(bs[i], dt)
         IN  updateBullets(IF u.gone THEN RemoveAt(bs, i)
                           ELSE [bs EXCEPT ![i] = u.b],
                           i - 1, dt)

\* Player.update without the movement, which is an input of the frame
PlayerUpdate(p, held, tie, dt) ==
    LET p1 == handleShooting(p, held, tie)
    IN  [p1 EXCEPT !.bullets = updateBullets(p1.bullets, Len(p1.bullets), dt)]

\* (mutant) the callback without the Math.min against the reserve
ReloadCompleteNoMin(p) ==
    LET needed == maxMagAmmo - p.currentAmmo
    IN  [p EXCEPT !.currentAmmo = p.currentAmmo + needed,
                  !.reserveAmmo = p.reserveAmmo - needed,
                  !.isReloading = FALSE]

\* the body of the setTimeout callback of Player.reload
ReloadComplete(p) ==
    LET needed == maxMagAmmo - p.currentAmmo
        toAdd == Min(needed, p.reserveAmmo)
    IN  [p EXCEPT !.currentAmmo = p.currentAmmo + toAdd,
                  !.reserveAmmo = p.reserveAmmo - toAdd,
                  !.isReloading = FALSE]

\* (mutant) the early return without the isReloading test
ReloadRefusedNoReentry(p) ==
    p.currentAmmo = maxMagAmmo \/ p.reserveAmmo <= 0

\* the early return of Player.reload
ReloadRefused(p) ==
    p.isReloading \/ p.currentAmmo = maxMagAmmo \/ p.reserveAmmo <= 0

\* Player.addAmmo
addAmmo(r, amount) == r + amount

\* Player.takeDamage: the new health; the caller tests health <= 0
\* (mutant) damage that adds to the health
takeDamageAdds(h, amount) == h + amount

takeDamage(h, amount) == h - amount

(***************************************************************************)
(* Zombie and ZombieManager                                                *)
(***************************************************************************)
\* (mutant) a FAST zombie made with no health
ZombieHealthNone(type) ==
    CASE type = "FAST" -> 0
      [] type = "TANK" -> 10
      [] OTHER -> 3

\* Zombie constructor: starting health by type
ZombieHealth(type) ==
    CASE type = "FAST" -> 2
      [] type = "TANK" -> 10
      [] OTHER -> 3

\* diffuse and emissive are the colours of the material ("type": the colour
\* of the type), timers the pending flash callbacks in the order they were
\* set, each with the colour it captured; hits counts the takeDamage calls
NewZombie(id, type) ==
    [id |-> id, type |-> type, health |-> ZombieHealth(type), dead |-> FALSE,
     diffuse |-> "type", emissive |-> "black", timers |-> <<>>, hits |-> 0]

\* the flash of Zombie.takeDamage: the current colour is captured, the
\* material turns red and a callback is set
Flash(z) ==
    [z EXCEPT !.diffuse = "red", !.emissive = "flash",
              !.timers = Append(z.timers, z.diffuse), !.hits = z.hits + 1]

\* (mutant) a hit that takes twice the amount
ZombieTakeDoubleDamage(z, amount) ==
    LET h == z.health - 2 * amount
    IN  [Flash(z) EXCEPT !.health = h, !.dead = IF h <= 0 THEN TRUE ELSE z.dead]

\* Zombie.takeDamage with Zombie.die
ZombieTakeDamage(z, amount) ==
    LET h == z.health - amount
    IN  [Flash(z) EXCEPT !.health = h, !.dead = IF h <= 0 THEN TRUE ELSE z.dead]

\* (mutant) a callback that restores the colour of a dead zombie too
FlashCallbackUnguarded(z) ==
    [z EXCEPT !.diffuse = Head(z.timers), !.emissive = "black",
              !.timers = Tail(z.timers)]

\* the setTimeout callback of Zombie.takeDamage that is due first
FlashCallback(z) ==
    IF ~z.dead
    THEN [z EXCEPT !.diffuse = Head(z.timers), !.emissive = "black",
                   !.timers = Tail(z.timers)]
    ELSE [z EXCEPT !.timers = Tail(z.timers)]

\* (mutant) a type selection that takes the thresholds themselves too
ZombieTypeOfInclusive(rand) ==
    IF rand >= 900 THEN "TANK" ELSE IF rand >= 700 THEN "FAST" ELSE "STANDARD"

\* type selection of ZombieManager.spawnZombie; rand in 1/1000
ZombieTypeOf(rand) ==
    IF rand > 900 THEN "TANK" ELSE IF rand > 700 THEN "FAST" ELSE "STANDARD"

\* One probe of spawnZombie.  under.obstacle / under.ground say what lies on
\* the vertical through the probe point.  The predicate of pickWithRay lets
\* through the obstacles and the one mesh that is environment.ground, and the
\* probe is valid when the picked mesh is environment.ground.  An obstacle
\* stands on the ground, so it is picked first.
ProbeValid(under, ground) ==
    /\ ~under.obstacle
    /\ under.ground
    /\ ground = "mesh"

\* the while loop of spawnZombie: is any of the first 10 probes valid
RECURSIVE ProbeLoop(_, _, _)
ProbeLoop(probes, attempts, ground) ==
    IF attempts >= MaxProbeAttempts \/ attempts >= Len(probes) THEN FALSE
    ELSE IF ProbeValid(probes[attempts + 1], ground) THEN TRUE
    ELSE ProbeLoop(probes, attempts + 1, ground)

\* ZombieManager.spawnZombie
spawnZombie(zs, nextId, probes, rand, ground) ==
    IF ProbeLoop(probes, 0, ground)
    THEN Append(zs, NewZombie(nextId, ZombieTypeOf(rand)))
    ELSE zs

\* (mutant) a loop that leaves the dead zombies in the list
DropDeadNone(zs, i) == zs

\* the loop of ZombieManager.update over the indices i down to 1: every
\* zombie that is dead is spliced out, the others keep their order
DropDead(zs, i) ==
    SelectSeq(SubSeq(zs, 1, i), LAMBDA z : ~z.dead) \o SubSeq(zs, i + 1, Len(zs))

\* (mutant) the spawn condition without the population cap
SpawnDueNoCap(timer, interval, n) == timer * 1000 > interval

SpawnDue(timer, interval, n) == timer * 1000 > interval /\ n < maxZombies

\* (mutant) the decay without the floor
DecayIntervalNoFloor(interval) == (interval * 99) \div 100

\* Math.max(0.5, this.spawnInterval * 0.99), in microseconds
DecayInterval(interval) == Max(MinSpawnInterval, (interval * 99) \div 100)

\* (mutant) an update that resets the timer and decays the interval only when
\* a zombie was made
ZombieManagerUpdateOnSuccess(m, dt, probes, rand, ground) ==
    LET t == m.spawnTimer + dt
        due == SpawnDue(t, m.spawnInterval, Len(m.zombies))
        zs1 == IF due THEN spawnZombie(m.zombies, m.created + 1, probes, rand, ground)
               ELSE m.zombies
        made == Len(zs1) > Len(m.zombies)
    IN  [zombies |-> DropDead(zs1, Len(zs1)),
         spawnTimer |-> IF made THEN 0 ELSE t,
         spawnInterval |-> IF made THEN DecayInterval(m.spawnInterval)
                           ELSE m.spawnInterval,
         created |-> m.created + (Len(zs1) - Len(m.zombies))]

\* ZombieManager.update
ZombieManagerUpdate(m, dt, probes, rand, ground) ==
    LET t == m.spawnTimer + dt
        due == SpawnDue(t, m.spawnInterval, Len(m.zombies))
        zs1 == IF due THEN spawnZombie(m.zombies, m.created + 1, probes, rand, ground)
               ELSE m.zombies
    IN  [zombies |-> DropDead(zs1, Len(zs1)),
         spawnTimer |-> IF due THEN 0 ELSE t,
         spawnInterval |-> IF due THEN DecayInterval(m.spawnInterval)
                           ELSE m.spawnInterval,
         created |-> m.created + (Len(zs1) - Len(m.zombies))]

(***************************************************************************)
(* GameApp.update: the collision and pickup passes                         *)
(***************************************************************************)
\* (mutant) the inner loop run from the first index up
RECURSIVE ZombieLoopUp(_, _)
ZombieLoopUp(j, ray) ==
    IF ray = {} THEN 0 ELSE CHOOSE k \in ray : \A l \in ray : k <= l

\* inner loop of the bullet pass: zombies are tried from the last index down
\* and the first one whose mesh the ray intersects is taken; 0 when none is
RECURSIVE ZombieLoop(_, _)
ZombieLoop(j, ray) ==
    IF j = 0 THEN 0
    ELSE IF j \in ray THEN j
    ELSE ZombieLoop(j - 1, ray)

\* one iteration of the outer loop, for the bullet at index i.
\* ray: indices of the zombies whose mesh the swept segment intersects;
\* env: "ground", "obstacle" or "none", what the segment meets in the world
ResolveBullet(st, i, ray, env) ==
    IF st.bullets[i].isDead THEN st
    ELSE
    LET j == ZombieLoop(Len(st.zombies), ray)
        hitZombie == j > 0
        z1 == IF hitZombie THEN ZombieTakeDamage(st.zombies[j], BulletDamage)
              ELSE st.zombies[1]
        zs1 == IF hitZombie THEN [st.zombies EXCEPT ![j] = z1] ELSE st.zombies
        sc1 == IF hitZombie /\ z1.dead THEN st.score + 1 ELSE st.score
        hitEnv == ~hitZombie /\ env # "none"
        entry == [b |-> i, ray |-> ray, env |-> env, hit |-> j,
                  before |-> st.zombies, after |-> zs1,
                  envTested |-> ~hitZombie,
                  removed |-> hitZombie \/ hitEnv,
                  scoreBefore |-> st.score, scoreAfter |-> sc1]
    IN  [bullets |-> IF hitZombie \/ hitEnv THEN RemoveAt(st.bullets, i)
                     ELSE st.bullets,
         zombies |-> zs1,
         score |-> sc1,
         log |-> Append(st.log, entry)]

\* (mutant) a pass whose index moves on by two after a removal
RECURSIVE ResolveBulletsSkip(_, _, _, _)
ResolveBulletsSkip(st, i, zRay, eRay) ==
    IF i <= 0 THEN st
    ELSE LET s1 == ResolveBullet(st, i, zRay[i], eRay[i])
         IN  ResolveBulletsSkip(s1, IF Len(s1.bullets) < Len(st.bullets)
                                    THEN i - 2 ELSE i - 1, zRay, eRay)

\* the bullet pass of GameApp.update: bullets from the last index down
RECURSIVE ResolveBullets(_, _, _, _)
ResolveBullets(st, i, zRay, eRay) ==
    IF i = 0 THEN st
    ELSE ResolveBullets(ResolveBullet(st, i, zRay[i], eRay[i]), i - 1, zRay, eRay)

\* Math.ceil of a health in 1/100 of a health point, in health points
MathCeil(h) == (h + 99) \div 100

\* 10 * dt health points, dt in ms, in 1/100 of a health point
TouchDamage(dt) == (10 * dt * 100) \div 1000

\* (mutant) a pass in which the dead zombies damage the player too
RECURSIVE ZombiePlayerPassDead(_, _, _, _, _)
ZombiePlayerPassDead(st, zs, k, touch, dt) ==
    IF k > Len(zs) \/ (\A t \in touch : t < k) THEN st
    ELSE IF k \in touch
    THEN LET h == takeDamage(st.health, TouchDamage(dt))
         IN  ZombiePlayerPassDead([health |-> h,
                                   over |-> st.over \/ h <= 0,
                                   calls |-> st.calls + (IF h <= 0 THEN 1 ELSE 0)],
                                  zs, k + 1, touch, dt)
    ELSE ZombiePlayerPassDead(st, zs, k + 1, touch, dt)

\* the zombie-player pass: every live zombie that touches the player damages
\* it, and gameOver() is called whenever takeDamage reports health <= 0.  The
\* loop is left once no touching zombie is ahead: the rest changes nothing
RECURSIVE ZombiePlayerPass(_, _, _, _, _)
ZombiePlayerPass(st, zs, k, touch, dt) ==
    IF k > Len(zs) \/ (\A t \in touch : t < k) THEN st
    ELSE IF ~zs[k].dead /\ k \in touch
    THEN LET h == takeDamage(st.health, TouchDamage(dt))
         IN  ZombiePlayerPass([health |-> h,
                               over |-> st.over \/ h <= 0,
                               calls |-> st.calls + (IF h <= 0 THEN 1 ELSE 0)],
                              zs, k + 1, touch, dt)
    ELSE ZombiePlayerPass(st, zs, k + 1, touch, dt)

\* (mutant) the health-pack pass without the cap at 100
RECURSIVE HealthPackPassNoCap(_, _, _)
HealthPackPassNoCap(st, i, touched) ==
    IF i = 0 THEN st
    ELSE IF st.packs[i] \in touched
    THEN LET h == st.health + HealthPackRestore
         IN  HealthPackPassNoCap([packs |-> RemoveAt(st.packs, i),
                                  health |-> h,
                                  disposed |-> st.disposed \cup {st.packs[i]},
                                  log |-> Append(st.log,
                                            [mesh |-> st.packs[i],
                                             before |-> st.health, after |-> h])],
                                 i - 1, touched)
    ELSE HealthPackPassNoCap(st, i - 1, touched)

\* the health-pack pass: packs from the last index down
RECURSIVE HealthPackPass(_, _, _)
HealthPackPass(st, i, touched) ==
    IF i = 0 THEN st
    ELSE IF st.packs[i] \in touched
    THEN LET h == Min(MaxHealth, st.health + HealthPackRestore)
         IN  HealthPackPass([packs |-> RemoveAt(st.packs, i),
                             health |-> h,
                             disposed |-> st.disposed \cup {st.packs[i]},
                             log |-> Append(st.log,
                                       [mesh |-> st.packs[i],
                                        before |-> st.health, after |-> h])],
                            i - 1, touched)
    ELSE HealthPackPass(st, i - 1, touched)

\* (mutant) the ammo-pack pass without the splice
RECURSIVE AmmoPackPassKeep(_, _, _)
AmmoPackPassKeep(st, i, touched) ==
    IF i = 0 THEN st
    ELSE IF st.packs[i] \in touched
    THEN LET r == addAmmo(st.reserve, AmmoPackAmount)
         IN  AmmoPackPassKeep([packs |-> st.packs,
                               reserve |-> r,
                               disposed |-> st.disposed \cup {st.packs[i]},
                               log |-> Append(st.log,
                                         [mesh |-> st.packs[i],
                                          before |-> st.reserve, after |-> r])],
                              i - 1, touched)
    ELSE AmmoPackPassKeep(st, i - 1, touched)

\* the ammo-pack pass
RECURSIVE AmmoPackPass(_, _, _)
AmmoPackPass(st, i, touched) ==
    IF i = 0 THEN st
    ELSE IF st.packs[i] \in touched
    THEN LET r == addAmmo(st.reserve, AmmoPackAmount)
         IN  AmmoPackPass([packs |-> RemoveAt(st.packs, i),
                           reserve |-> r,
                           disposed |-> st.disposed \cup {st.packs[i]},
                           log |-> Append(st.log,
                                     [mesh |-> st.packs[i],
                                      before |-> st.reserve, after |-> r])],
                          i - 1, touched)
    ELSE AmmoPackPass(st, i - 1, touched)

(***************************************************************************)
(* State                                                                   *)
(***************************************************************************)
CurPlayer ==
    PlayerState(currentAmmo, reserveAmmo, isReloading, sinceShot, bullets, pitch)
CurEnv == EnvState(chunks, obstacles, healthPacks, ammoPacks, chunksCreated,
                   disposedMeshes)
CurManager == [zombies |-> zombies, spawnTimer |-> spawnTimer,
               spawnInterval |-> spawnInterval, created |-> zombiesCreated]

NoFire == [held |-> FALSE, fired |-> FALSE, reloading |-> FALSE, since |-> 0,
           ammoBefore |-> 0, ammoAfter |-> 0,
           reserveBefore |-> 0, reserveAfter |-> 0, nBefore |-> 0, nAfter |-> 0]
NoEnvLog == [created |-> 0, disposed |-> {}, unchanged |-> TRUE]
NoSpawnLog == [dt |-> 0, probes |-> <<>>, rand |-> -1]
NoPickLog == [touchH |-> {}, touchA |-> {}, hlog |-> <<>>, alog |-> <<>>,
              hpBefore |-> <<>>, apBefore |-> <<>>,
              healthBefore |-> 0, reserveBefore |-> 0, ammoBefore |-> 0]

(***************************************************************************)
(* MobileControlsManager: the controls layout and its persistence          *)
(***************************************************************************)
Controls == {"leftStick", "rightStick", "shoot", "jump", "reload", "sprint",
             "pause"}
Fields == {"leftPx", "topPx", "widthPx", "heightPx"}

\* the keys of enterEditMode's editableKeys: every control but pause
EditableKeys == Controls \ {"pause"}

\* the controls enterEditMode aligns to the right edge
RightAligned == {"rightStick", "shoot", "jump", "reload"}

\* JavaScript values a field of a control can hold
Num(n) == [t |-> "number", n |-> n]
NaN == [t |-> "NaN", n |-> 0]
Infinity == [t |-> "Infinity", n |-> 0]
Null == [t |-> "null", n |-> 0]
Undefined == [t |-> "undefined", n |-> 0]

ControlLayout(l, t, w, h) ==
    [leftPx |-> Num(l), topPx |-> Num(t), widthPx |-> Num(w), heightPx |-> Num(h)]

defaultLayout ==
    [c \in Controls |->
       CASE c = "leftStick"  -> ControlLayout(30, -30, 150, 150)
         [] c = "rightStick" -> ControlLayout(-30, -30, 150, 150)
         [] c = "shoot"      -> ControlLayout(-210, -40, 80, 80)
         [] c = "jump"       -> ControlLayout(-300, -120, 70, 70)
         [] c = "reload"     -> ControlLayout(-210, -140, 60, 60)
         [] c = "sprint"     -> ControlLayout(30, -200, 70, 70)
         [] c = "pause"      -> ControlLayout(-20, 20, 50, 50)]

\* The text under STORAGE_KEY, as what it spells.  kind: "none" (getItem
\* returns null), "empty" (the empty string), "garbage" (not JSON),
\* "primitive" (JSON for null, a number, a string or a boolean), "object" (a
\* JSON object).  A member of the object is present or not, and so is each
\* field of a member; a field spells a number, a number beyond the range of a
\* double ("1e999") or null.
NumberText(n) == [t |-> "number", n |-> n]
HugeText == [t |-> "1e999", n |-> 0]
NullText == [t |-> "null", n |-> 0]
NoText == [t |-> "absent", n |-> 0]

NoMember == [present |-> FALSE, fields |-> [f \in Fields |-> NoText]]
StoredText(kind) == [kind |-> kind, members |-> [c \in Controls |-> NoMember]]
NothingStored == StoredText("none")

\* JSON.stringify of a value: NaN and the infinities are written as null, an
\* undefined property is left out
StringifyValue(v) ==
    CASE v.t = "number" -> NumberText(v.n)
      [] v.t \in {"NaN", "Infinity", "null"} -> NullText
      [] v.t = "undefined" -> NoText

\* JSON.parse of the text of a field; reading a property that is not there
\* gives undefined
ParseValue(x) ==
    CASE x.t = "number" -> Num(x.n)
      [] x.t = "1e999" -> Infinity
      [] x.t = "null" -> Null
      [] x.t = "absent" -> Undefined

JSONstringify(l) ==
    [kind |-> "object",
     members |-> [c \in Controls |->
                    [present |-> TRUE,
                     fields |-> [f \in Fields |-> StringifyValue(l[c][f])]]]]

\* JSON.parse: throws on text that is not JSON
JSONparse(text) ==
    [threw |-> text.kind = "garbage",
     value |-> [c \in Controls |-> [f \in Fields |-> ParseValue(text.members[c].fields[f])]]]

\* the body of the try block of loadLayout: threw when an exception leaves it
\* (JSON.parse on garbage, the in operator on a primitive)
LoadLayoutTry(text) ==
    IF text.kind \in {"none", "empty"}
    THEN [threw |-> FALSE, ret |-> defaultLayout]
    ELSE LET parsed == JSONparse(text)
         IN  IF parsed.threw \/ text.kind = "primitive"
             THEN [threw |-> TRUE, ret |-> defaultLayout]
             ELSE IF \E key \in Controls : ~text.members[key].present
                  THEN [threw |-> FALSE, ret |-> defaultLayout]
                  ELSE [threw |-> FALSE, ret |-> parsed.value]

\* (mutant) loadLayout without the try and catch
loadLayoutNoCatch(text) ==
    LET r == LoadLayoutTry(text)
    IN  [raised |-> r.threw, layout |-> r.ret]

\* MobileControlsManager.loadLayout: the catch swallows every exception and
\* the default layout is returned
loadLayout(text) ==
    LET r == LoadLayoutTry(text)
    IN  [raised |-> FALSE, layout |-> IF r.threw THEN defaultLayout ELSE r.ret]

\* the + operator with a number on the right
Plus(v, d) ==
    CASE v.t = "number" -> Num(v.n + d)
      [] v.t = "null" -> Num(d)
      [] v.t = "Infinity" -> Infinity
      [] v.t \in {"NaN", "undefined"} -> NaN

MathMin(a, v) ==
    CASE v.t = "number" -> Num(IF a < v.n THEN a ELSE v.n)
      [] v.t = "null" -> Num(IF a < 0 THEN a ELSE 0)
      [] v.t = "Infinity" -> Num(a)
      [] v.t \in {"NaN", "undefined"} -> NaN

MathMax(a, v) ==
    CASE v.t = "number" -> Num(IF a > v.n THEN a ELSE v.n)
      [] v.t = "null" -> Num(IF a > 0 THEN a ELSE 0)
      [] v.t = "Infinity" -> Infinity
      [] v.t \in {"NaN", "undefined"} -> NaN

\* the click handlers of the scale buttons
ScaleUp(cfg) ==
    [cfg EXCEPT !.widthPx = MathMin(MaxControlSize, Plus(@, ScaleStep)),
                !.heightPx = MathMin(MaxControlSize, Plus(@, ScaleStep))]

ScaleDown(cfg) ==
    [cfg EXCEPT !.widthPx = MathMax(MinControlSize, Plus(@, -ScaleStep)),
                !.heightPx = MathMax(MinControlSize, Plus(@, -ScaleStep))]

\* the pointer-move handler of enableDrag, dx and dy the pointer's movement
\* since pointer down: inverted for right-aligned and for bottom-aligned
\* controls (every editable control is bottom-aligned)
DragTo(key, cfg, dx, dy) ==
    [cfg EXCEPT !.leftPx = Plus(@, IF key \in RightAligned THEN -dx ELSE dx),
                !.topPx = Plus(@, -dy)]

NoSave == [done |-> FALSE, layout |-> defaultLayout]

\* the state after the MobileControlsManager constructor, the storage holding
\* one of texts
InitControls(texts) ==
    /\ storage \in texts
    /\ layout = loadLayout(storage).layout
    /\ raised = loadLayout(storage).raised
    /\ editMode = FALSE
    /\ saved = NoSave
    /\ edits = 0

\* the outcomes of the Math.random() draws of chunk generation
Seeds == 0..1

\* The state after the GameApp constructor.  The Environment constructor runs
\* update(Vector3.Zero()).  ZombieManager.spawnZombie reads
\* this.environment.ground, which the chunked Environment does not declare:
\* envGround is "undefined" for it and "mesh" when the property holds the ground
\* mesh under the probe.
InitGame(seeds, grounds) ==
    /\ health = InitialHealth
    /\ currentAmmo = maxMagAmmo
    /\ reserveAmmo = InitialReserveAmmo
    /\ isReloading = FALSE
    /\ sinceShot = SinceShotCap
    /\ mouseLeft = FALSE
    /\ bullets = <<>>
    /\ reloadTimer = -1
    /\ pos = <<0, 0>>
    /\ pitch = 0
    /\ \E seed \in seeds :
         LET e == EnvUpdate(EmptyEnv, <<0, 0>>, seed)
         IN  /\ chunks = e.chunks
             /\ obstacles = e.obstacles
             /\ healthPacks = e.healthPacks
             /\ ammoPacks = e.ammoPacks
             /\ chunksCreated = e.created
             /\ disposedMeshes = e.disposed
    /\ zombies = <<>>
    /\ spawnTimer = 0
    /\ spawnInterval = InitialSpawnInterval
    /\ envGround \in grounds
    /\ zombiesCreated = 0
    /\ score = 0
    /\ isGameOver = FALSE
    /\ isPaused = FALSE
    /\ renderLoop = TRUE
    /\ gameOverCalls = 0
    /\ healthLabel = InitialHealthLabel
    /\ ammoLabel = <<InitialAmmoLabel>>
    /\ step = "init"
    /\ ticks = 0
    /\ killed = 0
    /\ fireLog = NoFire
    /\ hitLog = <<>>
    /\ envLog = NoEnvLog
    /\ pickLog = NoPickLog
    /\ spawnLog = NoSpawnLog
    /\ touchLog = {}

\* the game with nothing stored under STORAGE_KEY
InitWith(seeds, grounds) ==
    /\ InitGame(seeds, grounds)
    /\ InitControls({NothingStored})

Init == InitWith(Seeds, {"undefined", "mesh"})

(***************************************************************************)
(* Inputs of a frame                                                       *)
(***************************************************************************)
Under(o, g) == [obstacle |-> o, ground |-> g]

\* ten probes over the same kind of place, and nine over buildings followed by
\* one over open ground
ProbesAll(u) == [i \in 1..MaxProbeAttempts |-> u]
ProbesLastOpen ==
    [i \in 1..MaxProbeAttempts |->
        IF i < MaxProbeAttempts THEN Under(TRUE, TRUE) ELSE Under(FALSE, TRUE)]
ProbesOffGround == {ProbesAll(Under(TRUE, TRUE)), ProbesAll(Under(FALSE, FALSE))}
ProbesOpen == {ProbesAll(Under(FALSE, TRUE)), ProbesLastOpen}

\* the packs of the chunks at most `reach` chunks away from the player's chunk
NearPacks(e, packs, p, reach) ==
    LET c == CenterChunk(p)
    IN  {m \in Range(packs) :
            \E k \in DOMAIN e.chunks :
                /\ e.chunks[k].id = MeshOwner(m)
                /\ k[1] - c[1] \in -reach..reach
                /\ k[2] - c[2] \in -reach..reach}

(***************************************************************************)
(* The frame callback of engine.runRenderLoop and GameApp.update           *)
(***************************************************************************)
\* (mutant) an update that streams the world around the position the player
\* had before it moved
UpdateEnvironmentFirst(cfg, dt) ==
    \E newPos \in cfg.poss, seed \in cfg.seeds, rand \in cfg.rands,
       probes \in (IF Len(zombies) < cfg.maxHostiles THEN cfg.probes
                   ELSE ProbesOffGround) :
    \* this.player.update(dt)
    \E p0 \in {[CurPlayer EXCEPT !.sinceShot = Min(SinceShotCap, sinceShot + dt)]} :
    \E tie \in (IF p0.sinceShot = fireRate THEN BOOLEAN ELSE {FALSE}) :
    \E p1 \in {handleShooting(p0, mouseLeft, tie)} :
    \E p2 \in {[p1 EXCEPT !.bullets = updateBullets(p1.bullets, Len(p1.bullets), dt)]} :
    \* this.environment.update(this.player.mesh.position)
    \E e1 \in {EnvUpdate(CurEnv, pos, seed)} :
    \* this.zombieManager.update(dt)
    \E m1 \in {ZombieManagerUpdate(CurManager, dt, probes, rand, envGround)} :
    \* the geometry of this frame
    \E zRay \in [1..Len(p2.bullets) ->
                    IF cfg.zray THEN SUBSET (1..Len(m1.zombies)) ELSE {{}}],
       eRay \in [1..Len(p2.bullets) -> cfg.envs],
       touch \in (IF cfg.ztouch THEN SUBSET (1..Len(m1.zombies)) ELSE {{}}),
       touchH \in (IF cfg.htouch
                   THEN SUBSET NearPacks(e1, e1.healthPacks, newPos, cfg.reach)
                   ELSE {{}}),
       touchA \in (IF cfg.atouch
                   THEN SUBSET NearPacks(e1, e1.ammoPacks, newPos, cfg.reach)
                   ELSE {{}}) :
    \* bullets against zombies and the world
    \E r1 \in {ResolveBullets([bullets |-> p2.bullets, zombies |-> m1.zombies,
                               score |-> score, log |-> <<>>],
                              Len(p2.bullets), zRay, eRay)} :
    \* zombies against the player
    \E d1 \in {ZombiePlayerPass([health |-> health, over |-> FALSE, calls |-> 0],
                                r1.zombies, 1, touch, dt)} :
    \* health packs, then ammo packs
    \E h1 \in {HealthPackPass([packs |-> e1.healthPacks, health |-> d1.health,
                               disposed |-> e1.disposed, log |-> <<>>],
                              Len(e1.healthPacks), touchH)} :
    \E a1 \in {AmmoPackPass([packs |-> e1.ammoPacks, reserve |-> p2.reserveAmmo,
                             disposed |-> h1.disposed, log |-> <<>>],
                            Len(e1.ammoPacks), touchA)} :
       /\ cfg.maxTicks > 0 => ticks < cfg.maxTicks
       /\ ticks' = IF cfg.maxTicks > 0 THEN ticks + 1 ELSE ticks
       /\ e1.created <= MaxChunksCreated
       /\ m1.created <= cfg.maxSpawned
       /\ a1.reserve <= MaxReserve
       /\ m1.spawnTimer <= MaxSpawnTimer
       /\ health' = h1.health
       /\ currentAmmo' = p2.currentAmmo
       /\ reserveAmmo' = a1.reserve
       /\ isReloading' = p2.isReloading
       /\ sinceShot' = p2.sinceShot
       /\ bullets' = r1.bullets
       /\ pos' = newPos
       /\ pitch' = p2.pitch
       /\ chunks' = e1.chunks
       /\ obstacles' = e1.obstacles
       /\ healthPacks' = h1.packs
       /\ ammoPacks' = a1.packs
       /\ chunksCreated' = e1.created
       /\ disposedMeshes' = a1.disposed
       /\ zombies' = r1.zombies
       /\ spawnTimer' = m1.spawnTimer
       /\ spawnInterval' = m1.spawnInterval
       /\ zombiesCreated' = m1.created
       /\ score' = r1.score
       /\ isGameOver' = (isGameOver \/ d1.over)
       /\ renderLoop' = (renderLoop /\ ~d1.over)
       /\ gameOverCalls' = gameOverCalls + d1.calls
       /\ killed' = killed + Cardinality({k \in 1..Len(r1.log) :
                               /\ r1.log[k].hit > 0
                               /\ ~r1.log[k].before[r1.log[k].hit].dead
                               /\ r1.log[k].after[r1.log[k].hit].dead})
       /\ fireLog' = [held |-> mouseLeft, fired |-> CanFire(p0, mouseLeft, tie),
                      reloading |-> p0.isReloading, since |-> p0.sinceShot,
                      ammoBefore |-> p0.currentAmmo, ammoAfter |-> p1.currentAmmo,
                      reserveBefore |-> p0.reserveAmmo,
                      reserveAfter |-> p1.reserveAmmo,
                      nBefore |-> Len(p0.bullets), nAfter |-> Len(p1.bullets)]
       /\ hitLog' = r1.log
       /\ envLog' = [created |-> e1.created - chunksCreated,
                     disposed |-> DOMAIN chunks \ DOMAIN e1.chunks,
                     unchanged |-> e1 = CurEnv]
       /\ pickLog' = [touchH |-> touchH, touchA |-> touchA,
                      hlog |-> h1.log, alog |-> a1.log,
                      hpBefore |-> e1.healthPacks, apBefore |-> e1.ammoPacks,
                      healthBefore |-> d1.health,
                      reserveBefore |-> p2.reserveAmmo,
                      ammoBefore |-> p2.currentAmmo]
       /\ spawnLog' = [dt |-> dt, probes |-> probes,
                       rand |-> IF m1.created > zombiesCreated THEN rand ELSE -1]
       /\ touchLog' = touch
       \* the labels, last
       /\ healthLabel' = MathCeil(h1.health)
       /\ ammoLabel' = <<p2.currentAmmo, a1.reserve>>
       /\ step' = "update"
       /\ UNCHANGED <<mouseLeft, envGround, isPaused, controlsVars>>

\* cfg bounds the inputs: dts (frame times), poss (where the move ends),
\* seeds, probes, rands, envs (what a bullet can meet in the world) and the
\* flags zray, ztouch, htouch, atouch (may a ray meet a zombie, a zombie or a
\* pack touch the player), reach (how far the touched packs can be),
\* maxTicks (the number of updates of a run; 0 for no limit), maxHostiles (the
\* list length from which every probe misses) and maxSpawned (the number of
\* zombies made in a run)
Update(cfg, dt) ==
    \E newPos \in cfg.poss, seed \in cfg.seeds, rand \in cfg.rands,
       probes \in (IF Len(zombies) < cfg.maxHostiles THEN cfg.probes
                   ELSE ProbesOffGround) :
    \* this.player.update(dt)
    \E p0 \in {[CurPlayer EXCEPT !.sinceShot = Min(SinceShotCap, sinceShot + dt)]} :
    \E tie \in (IF p0.sinceShot = fireRate THEN BOOLEAN ELSE {FALSE}) :
    \E p1 \in {handleShooting(p0, mouseLeft, tie)} :
    \E p2 \in {[p1 EXCEPT !.bullets = updateBullets(p1.bullets, Len(p1.bullets), dt)]} :
    \* this.environment.update(this.player.mesh.position)
    \E e1 \in {EnvUpdate(CurEnv, newPos, seed)} :
    \* this.zombieManager.update(dt)
    \E m1 \in {ZombieManagerUpdate(CurManager, dt, probes, rand, envGround)} :
    \* the geometry of this frame
    \E zRay \in [1..Len(p2.bullets) ->
                    IF cfg.zray THEN SUBSET (1..Len(m1.zombies)) ELSE {{}}],
       eRay \in [1..Len(p2.bullets) -> cfg.envs],
       touch \in (IF cfg.ztouch THEN SUBSET (1..Len(m1.zombies)) ELSE {{}}),
       touchH \in (IF cfg.htouch
                   THEN SUBSET NearPacks(e1, e1.healthPacks, newPos, cfg.reach)
                   ELSE {{}}),
       touchA \in (IF cfg.atouch
                   THEN SUBSET NearPacks(e1, e1.ammoPacks, newPos, cfg.reach)
                   ELSE {{}}) :
    \* bullets against zombies and the world
    \E r1 \in {ResolveBullets([bullets |-> p2.bullets, zombies |-> m1.zombies,
                               score |-> score, log |-> <<>>],
                              Len(p2.bullets), zRay, eRay)} :
    \* zombies against the player
    \E d1 \in {ZombiePlayerPass([health |-> health, over |-> FALSE, calls |-> 0],
                                r1.zombies, 1, touch, dt)} :
    \* health packs, then ammo packs
    \E h1 \in {HealthPackPass([packs |-> e1.healthPacks, health |-> d1.health,
                               disposed |-> e1.disposed, log |-> <<>>],
                              Len(e1.healthPacks), touchH)} :
    \E a1 \in {AmmoPackPass([packs |-> e1.ammoPacks, reserve |-> p2.reserveAmmo,
                             disposed |-> h1.disposed, log |-> <<>>],
                            Len(e1.ammoPacks), touchA)} :
       /\ cfg.maxTicks > 0 => ticks < cfg.maxTicks
       /\ ticks' = IF cfg.maxTicks > 0 THEN ticks + 1 ELSE ticks
       /\ e1.created <= MaxChunksCreated
       /\ m1.created <= cfg.maxSpawned
       /\ a1.reserve <= MaxReserve
       /\ m1.spawnTimer <= MaxSpawnTimer
       /\ health' = h1.health
       /\ currentAmmo' = p2.currentAmmo
       /\ reserveAmmo' = a1.reserve
       /\ isReloading' = p2.isReloading
       /\ sinceShot' = p2.sinceShot
       /\ bullets' = r1.bullets
       /\ pos' = newPos
       /\ pitch' = p2.pitch
       /\ chunks' = e1.chunks
       /\ obstacles' = e1.obstacles
       /\ healthPacks' = h1.packs
       /\ ammoPacks' = a1.packs
       /\ chunksCreated' = e1.created
       /\ disposedMeshes' = a1.disposed
       /\ zombies' = r1.zombies
       /\ spawnTimer' = m1.spawnTimer
       /\ spawnInterval' = m1.spawnInterval
       /\ zombiesCreated' = m1.created
       /\ score' = r1.score
       /\ isGameOver' = (isGameOver \/ d1.over)
       /\ renderLoop' = (renderLoop /\ ~d1.over)
       /\ gameOverCalls' = gameOverCalls + d1.calls
       /\ killed' = killed + Cardinality({k \in 1..Len(r1.log) :
                               /\ r1.log[k].hit > 0
                               /\ ~r1.log[k].before[r1.log[k].hit].dead
                               /\ r1.log[k].after[r1.log[k].hit].dead})
       /\ fireLog' = [held |-> mouseLeft, fired |-> CanFire(p0, mouseLeft, tie),
                      reloading |-> p0.isReloading, since |-> p0.sinceShot,
                      ammoBefore |-> p0.currentAmmo, ammoAfter |-> p1.currentAmmo,
                      reserveBefore |-> p0.reserveAmmo,
                      reserveAfter |-> p1.reserveAmmo,
                      nBefore |-> Len(p0.bullets), nAfter |-> Len(p1.bullets)]
       /\ hitLog' = r1.log
       /\ envLog' = [created |-> e1.created - chunksCreated,
                     disposed |-> DOMAIN chunks \ DOMAIN e1.chunks,
                     unchanged |-> e1 = CurEnv]
       /\ pickLog' = [touchH |-> touchH, touchA |-> touchA,
                      hlog |-> h1.log, alog |-> a1.log,
                      hpBefore |-> e1.healthPacks, apBefore |-> e1.ammoPacks,
                      healthBefore |-> d1.health,
                      reserveBefore |-> p2.reserveAmmo,
                      ammoBefore |-> p2.currentAmmo]
       /\ spawnLog' = [dt |-> dt, probes |-> probes,
                       rand |-> IF m1.created > zombiesCreated THEN rand ELSE -1]
       /\ touchLog' = touch
       \* the labels, last
       /\ healthLabel' = MathCeil(h1.health)
       /\ ammoLabel' = <<p2.currentAmmo, a1.reserve>>
       /\ step' = "update"
       /\ UNCHANGED <<mouseLeft, envGround, isPaused, controlsVars>>

\* a handler of the game leaves no record of a frame and the controls alone
ClearLogs ==
    /\ UNCHANGED controlsVars
    /\ fireLog' = NoFire
    /\ hitLog' = <<>>
    /\ envLog' = NoEnvLog
    /\ pickLog' = NoPickLog
    /\ spawnLog' = NoSpawnLog
    /\ touchLog' = {}

\* (mutant) a frame callback that does not look at isPaused
FrameIgnoringPause(cfg) ==
    \E dt \in cfg.dts :
       /\ reloadTimer' = IF reloadTimer > 0 THEN Max(0, reloadTimer - dt)
                         ELSE reloadTimer
       /\ IF renderLoop /\ ~isGameOver
          THEN Update(cfg, dt)
          ELSE /\ sinceShot' = Min(SinceShotCap, sinceShot + dt)
               /\ step' = "idle"
               /\ ClearLogs
               /\ UNCHANGED <<health, currentAmmo, reserveAmmo, isReloading,
                              mouseLeft, bullets, pos, pitch, envVars, zombieVars,
                              appVars, ticks, killed>>

\* dt ms go by and the render-loop callback runs: update() unless the game is
\* over or paused.  The pending reload timer comes dt closer.
Frame(cfg) ==
    \E dt \in cfg.dts :
       /\ reloadTimer' = IF reloadTimer > 0 THEN Max(0, reloadTimer - dt)
                         ELSE reloadTimer
       /\ IF renderLoop /\ ~isGameOver /\ ~isPaused
          THEN Update(cfg, dt)
          ELSE /\ sinceShot' = Min(SinceShotCap, sinceShot + dt)
               /\ step' = "idle"
               /\ ClearLogs
               /\ UNCHANGED <<health, currentAmmo, reserveAmmo, isReloading,
                              mouseLeft, bullets, pos, pitch, envVars, zombieVars,
                              appVars, ticks, killed>>

\* keydown "r": Player.reload.  levels: the magazine counts at which the key
\* is pressed (it is also pressed while a reload is in progress)
KeyR(levels) ==
    /\ currentAmmo \in levels \/ isReloading
    /\ step' = "keyR"
    /\ IF ReloadRefused(CurPlayer)
       THEN UNCHANGED <<isReloading, reloadTimer>>
       ELSE /\ isReloading' = TRUE
            /\ reloadTimer' = ReloadDelay
    /\ UNCHANGED <<health, currentAmmo, reserveAmmo, sinceShot, mouseLeft,
                   bullets, pos, pitch, envVars, zombieVars, appVars, ticks, killed>>
    /\ ClearLogs

\* (mutant) a callback that fills the magazine and leaves the reserve alone
ReloadTimerFiresFree ==
    /\ reloadTimer = 0
    /\ currentAmmo' = maxMagAmmo
    /\ reserveAmmo' = reserveAmmo
    /\ isReloading' = FALSE
    /\ reloadTimer' = -1
    /\ step' = "reloadDone"
    /\ UNCHANGED <<health, sinceShot, mouseLeft, bullets, pos, pitch, envVars,
                   zombieVars, appVars, ticks, killed>>
    /\ ClearLogs

\* the setTimeout callback of Player.reload, 1500 ms after the request
ReloadTimerFires ==
    /\ reloadTimer = 0
    /\ LET p == ReloadComplete(CurPlayer)
       IN  /\ currentAmmo' = p.currentAmmo
           /\ reserveAmmo' = p.reserveAmmo
           /\ isReloading' = p.isReloading
    /\ reloadTimer' = -1
    /\ step' = "reloadDone"
    /\ UNCHANGED <<health, sinceShot, mouseLeft, bullets, pos, pitch, envVars,
                   zombieVars, appVars, ticks, killed>>
    /\ ClearLogs

\* pointer down / up on the left button: inputMap["mouseLeft"]
PointerDown ==
    /\ ~mouseLeft
    /\ mouseLeft' = TRUE
    /\ step' = "pointerDown"
    /\ UNCHANGED <<health, currentAmmo, reserveAmmo, isReloading, sinceShot,
                   bullets, reloadTimer, pos, pitch, envVars, zombieVars, appVars, ticks, killed>>
    /\ ClearLogs

\* the POINTERMOVE branch of the pointer observer, with the pointer locked:
\* the new pitch is taken when it lies strictly between -1.5 and 1.5
PointerMove(movements) ==
    \E movementY \in movements :
       /\ LET newX == pitch + movementY * LookStep
          IN  pitch' = IF newX > -PitchLimit /\ newX < PitchLimit THEN newX ELSE pitch
       /\ step' = "pointerMove"
       /\ UNCHANGED <<health, currentAmmo, reserveAmmo, isReloading, sinceShot,
                      mouseLeft, bullets, reloadTimer, pos, envVars, zombieVars,
                      appVars, ticks, killed>>
       /\ ClearLogs

PointerUp ==
    /\ mouseLeft
    /\ mouseLeft' = FALSE
    /\ step' = "pointerUp"
    /\ UNCHANGED <<health, currentAmmo, reserveAmmo, isReloading, sinceShot,
                   bullets, reloadTimer, pos, pitch, envVars, zombieVars, appVars, ticks, killed>>
    /\ ClearLogs

\* (mutant) togglePause without the early return on isGameOver
TogglePauseAlways ==
    /\ isPaused' = ~isPaused
    /\ step' = "togglePause"
    /\ UNCHANGED <<playerVars, envVars, zombieVars, score, isGameOver,
                   renderLoop, gameOverCalls, healthLabel, ammoLabel, ticks,
                   killed>>
    /\ ClearLogs

\* GameApp.togglePause: returns at once when the game is over
TogglePause ==
    /\ isPaused' = IF isGameOver THEN isPaused ELSE ~isPaused
    /\ step' = "togglePause"
    /\ UNCHANGED <<playerVars, envVars, zombieVars, score, isGameOver,
                   renderLoop, gameOverCalls, healthLabel, ammoLabel, ticks,
                   killed>>
    /\ ClearLogs

\* a flash callback of a zombie of the list runs, at some moment after its
\* 100 ms.  The callbacks of a zombie that left the list change nothing and
\* are not kept.
FlashTimerFires ==
    \E k \in 1..Len(zombies) :
       /\ zombies[k].timers # <<>>
       /\ zombies' = [zombies EXCEPT ![k] = FlashCallback(@)]
       /\ step' = "flashTimer"
       /\ UNCHANGED <<playerVars, envVars, spawnTimer, spawnInterval, envGround,
                      zombiesCreated, appVars, ticks, killed>>
       /\ ClearLogs

\* click on the edit button, visible outside edit mode
EnterEditMode ==
    /\ ~editMode
    /\ editMode' = TRUE
    /\ step' = "enterEdit"
    /\ UNCHANGED <<layout, storage, raised, saved, edits, gameVars>>

\* click on the + button of the control key
ScalePlus(keys) ==
    \E key \in keys \cap EditableKeys :
       /\ editMode
       /\ edits < MaxEdits
       /\ layout' = [layout EXCEPT ![key] = ScaleUp(@)]
       /\ edits' = edits + 1
       /\ step' = "scalePlus"
       /\ UNCHANGED <<storage, editMode, raised, saved, gameVars>>

\* click on the - button of the control key
ScaleMinus(keys) ==
    \E key \in keys \cap EditableKeys :
       /\ editMode
       /\ edits < MaxEdits
       /\ layout' = [layout EXCEPT ![key] = ScaleDown(@)]
       /\ edits' = edits + 1
       /\ step' = "scaleMinus"
       /\ UNCHANGED <<storage, editMode, raised, saved, gameVars>>

\* pointer down on the control key, a move by (dx, dy), pointer up
Drag(keys, moves) ==
    \E key \in keys \cap EditableKeys, d \in moves :
       /\ editMode
       /\ edits < MaxEdits
       /\ layout' = [layout EXCEPT ![key] = DragTo(key, @, d[1], d[2])]
       /\ edits' = edits + 1
       /\ step' = "drag"
       /\ UNCHANGED <<storage, editMode, raised, saved, gameVars>>

\* saveLayout: localStorage.setItem(STORAGE_KEY, JSON.stringify(this.layout))
SaveLayout(l) ==
    /\ storage' = JSONstringify(l)
    /\ saved' = [done |-> TRUE, layout |-> l]

\* click on DONE: exitEditMode
ExitEditMode ==
    /\ editMode
    /\ editMode' = FALSE
    /\ SaveLayout(layout)
    /\ step' = "exitEdit"
    /\ UNCHANGED <<layout, raised, edits, gameVars>>

\* click on RESET: resetLayout, which enters edit mode again and saves
ResetLayout ==
    /\ editMode
    /\ layout' = defaultLayout
    /\ editMode' = TRUE
    /\ SaveLayout(defaultLayout)
    /\ step' = "reset"
    /\ UNCHANGED <<raised, edits, gameVars>>

\* the page is loaded again: the constructor reads the stored layout
Construct ==
    /\ layout' = loadLayout(storage).layout
    /\ raised' = loadLayout(storage).raised
    /\ editMode' = FALSE
    /\ step' = "construct"
    /\ UNCHANGED <<storage, saved, edits, gameVars>>

(***************************************************************************)
(* Specifications                                                          *)
(***************************************************************************)
\* ammunition: firing, reload requests, the reload timer and ammo pickups
CfgAmmo ==
    [dts |-> {1500}, poss |-> {<<0, 0>>}, seeds |-> {0}, rands |-> {500},
     probes |-> {ProbesAll(Under(TRUE, TRUE))}, envs |-> {"none"},
     zray |-> FALSE, ztouch |-> FALSE, htouch |-> FALSE, atouch |-> TRUE,
     reach |-> 0, maxTicks |-> 0,
     maxHostiles |-> MaxHostiles, maxSpawned |-> MaxSpawned]

InitAmmo == InitWith({0}, {"undefined"})

FrameAmmo == Frame(CfgAmmo)
KeyRAmmo == KeyR(ReloadAt)

NextAmmo ==
    \/ FrameAmmo
    \/ KeyRAmmo
    \/ ReloadTimerFires
    \/ PointerDown

SpecAmmo == InitAmmo /\ [][NextAmmo]_vars

\* combat: projectiles against hostiles and the world
CfgCombat ==
    [dts |-> {700, 2600}, poss |-> {<<0, 0>>}, seeds |-> {0}, rands |-> {500, 800},
     probes |-> {ProbesLastOpen}, envs |-> {"none", "ground"},
     zray |-> TRUE, ztouch |-> FALSE, htouch |-> FALSE, atouch |-> FALSE,
     reach |-> 0, maxTicks |-> MaxCombatTicks,
     maxHostiles |-> MaxHostiles, maxSpawned |-> MaxSpawned]

InitCombat == InitWith({0}, {"mesh"})

FrameCombat == Frame(CfgCombat)

NextCombat ==
    \/ FrameCombat
    \/ PointerDown
    \/ PointerUp

SpecCombat == InitCombat /\ [][NextCombat]_vars

\* world streaming: the player moves, chunks come and go, packs are consumed
PosSet == {<<0, 0>>, <<29, -30>>, <<30, 0>>, <<-31, 60>>, <<180, 0>>}

CfgEnv ==
    [dts |-> {16}, poss |-> PosSet, seeds |-> Seeds, rands |-> {500},
     probes |-> {ProbesAll(Under(TRUE, TRUE))}, envs |-> {"none"},
     zray |-> FALSE, ztouch |-> FALSE, htouch |-> TRUE, atouch |-> TRUE,
     reach |-> 0, maxTicks |-> MaxEnvTicks,
     maxHostiles |-> MaxHostiles, maxSpawned |-> MaxSpawned]

InitEnv == InitWith(Seeds, {"undefined"})

FrameEnv == Frame(CfgEnv)

NextEnv == FrameEnv

SpecEnv == InitEnv /\ [][NextEnv]_vars

\* pickups: hostiles wear the player down, packs restore health and ammo
CfgPickup ==
    [dts |-> {2600}, poss |-> {<<0, 0>>, <<60, 60>>}, seeds |-> {0}, rands |-> {500},
     probes |-> {ProbesAll(Under(FALSE, TRUE))}, envs |-> {"none"},
     zray |-> FALSE, ztouch |-> TRUE, htouch |-> TRUE, atouch |-> TRUE,
     reach |-> 0, maxTicks |-> MaxPickupTicks,
     maxHostiles |-> MaxHostiles, maxSpawned |-> MaxSpawned]

InitPickup == InitWith({0}, {"mesh"})

FramePickup == Frame(CfgPickup)

NextPickup == FramePickup

SpecPickup == InitPickup /\ [][NextPickup]_vars

\* loot: the player goes back and forth between two chunks whose packs it
\* consumes, so that chunk (0, 0) is disposed and made again
CfgLoot ==
    [dts |-> {16}, poss |-> {<<0, 0>>, <<180, 0>>}, seeds |-> Seeds, rands |-> {500},
     probes |-> {ProbesAll(Under(TRUE, TRUE))}, envs |-> {"none"},
     zray |-> FALSE, ztouch |-> FALSE, htouch |-> TRUE, atouch |-> TRUE,
     reach |-> 0, maxTicks |-> MaxLootTicks,
     maxHostiles |-> MaxHostiles, maxSpawned |-> MaxSpawned]

InitLoot == InitWith({0}, {"undefined"})

FrameLoot == Frame(CfgLoot)

NextLoot == FrameLoot

SpecLoot == InitLoot /\ [][NextLoot]_vars

\* crowd: nothing is killed and every spawn finds ground, so the hostile
\* list fills up to the population cap
CfgCrowd ==
    [dts |-> {2600, 3000}, poss |-> {<<0, 0>>}, seeds |-> {0}, rands |-> {500},
     probes |-> {ProbesAll(Under(FALSE, TRUE))}, envs |-> {"none"},
     zray |-> FALSE, ztouch |-> FALSE, htouch |-> FALSE, atouch |-> FALSE,
     reach |-> 0, maxTicks |-> MaxCrowdTicks,
     maxHostiles |-> maxZombies + 2, maxSpawned |-> maxZombies + 2]

InitCrowd == InitWith({0}, {"mesh"})

FrameCrowd == Frame(CfgCrowd)

NextCrowd == FrameCrowd

SpecCrowd == InitCrowd /\ [][NextCrowd]_vars

\* barren ground: most spawn attempts find no ground, one may succeed
CfgBarren ==
    [dts |-> {2600}, poss |-> {<<0, 0>>}, seeds |-> {0}, rands |-> {500},
     probes |-> ProbesOffGround \cup {ProbesLastOpen}, envs |-> {"none"},
     zray |-> FALSE, ztouch |-> FALSE, htouch |-> FALSE, atouch |-> FALSE,
     reach |-> 0, maxTicks |-> MaxBarrenTicks,
     maxHostiles |-> 1, maxSpawned |-> 1]

InitBarren == InitWith({0}, {"mesh"})

FrameBarren == Frame(CfgBarren)

NextBarren == FrameBarren

SpecBarren == InitBarren /\ [][NextBarren]_vars

\* a session to its end: hostiles touch the player until the game is over,
\* with shots, reload requests, the reload timer and the pause key around it
CfgSession ==
    [dts |-> {2600}, poss |-> {<<0, 0>>}, seeds |-> {0}, rands |-> {500},
     probes |-> {ProbesAll(Under(FALSE, TRUE))}, envs |-> {"none"},
     zray |-> FALSE, ztouch |-> TRUE, htouch |-> FALSE, atouch |-> FALSE,
     reach |-> 0, maxTicks |-> MaxSessionTicks,
     maxHostiles |-> MaxHostiles, maxSpawned |-> MaxSpawned]

InitSession == InitWith({0}, {"mesh"})

FrameSession == Frame(CfgSession)
KeyRSession == KeyR(ReloadAtSession)

NextSession ==
    \/ FrameSession
    \/ KeyRSession
    \/ ReloadTimerFires
    \/ PointerDown
    \/ TogglePause

SpecSession == InitSession /\ [][NextSession]_vars

\* rate of fire: short frames, so that the time since the last shot passes
\* through values below, at and above fireRate
CfgFire ==
    [dts |-> {50, 100}, poss |-> {<<0, 0>>}, seeds |-> {0}, rands |-> {500},
     probes |-> {ProbesAll(Under(TRUE, TRUE))}, envs |-> {"none"},
     zray |-> FALSE, ztouch |-> FALSE, htouch |-> FALSE, atouch |-> FALSE,
     reach |-> 0, maxTicks |-> MaxFireTicks,
     maxHostiles |-> MaxHostiles, maxSpawned |-> MaxSpawned]

InitFire == InitWith({0}, {"undefined"})

FrameFire == Frame(CfgFire)
KeyRFire == KeyR(ReloadAtSession)

NextFire ==
    \/ FrameFire
    \/ KeyRFire
    \/ PointerDown
    \/ PointerUp

SpecFire == InitFire /\ [][NextFire]_vars

(***************************************************************************)
(* Properties                                                              *)
(***************************************************************************)
\* C1: whatever the sequence of frames, fire events, reload requests,
\* reload-timer completions and ammo pickups, the magazine holds between 0 and
\* maxMagAmmo rounds and the reserve is never negative.
C1_AmmoInRange ==
    /\ currentAmmo >= 0
    /\ currentAmmo <= maxMagAmmo
    /\ reserveAmmo >= 0

\* a reload timer completed that could only partly fill the magazine, after
\* an ammo pack was picked up
C1_Witness ==
    /\ step = "reloadDone"
    /\ reserveAmmo = 0
    /\ currentAmmo > 0
    /\ currentAmmo < maxMagAmmo
    /\ AmmoPackMesh(chunks[<<0, 0>>].id) \in disposedMeshes

\* C2: in every update, a successful fire takes exactly one round from the
\* magazine, appends exactly one projectile and leaves the reserve alone; a
\* fire attempt with an empty magazine spawns no projectile and changes
\* neither counter.
C2_FireEffect ==
    [][step' = "update" =>
         LET f == fireLog'
         IN  /\ f.ammoBefore = currentAmmo
             /\ f.reserveBefore = reserveAmmo
             /\ f.nBefore = Len(bullets)
             /\ currentAmmo' = f.ammoAfter
             /\ f.fired => /\ f.ammoAfter = currentAmmo - 1
                           /\ f.nAfter = Len(bullets) + 1
                           /\ f.reserveAfter = reserveAmmo
             /\ ~f.fired => /\ f.ammoAfter = currentAmmo
                            /\ f.nAfter = Len(bullets)
                            /\ f.reserveAfter = reserveAmmo
             /\ (f.held /\ currentAmmo = 0) => ~f.fired]_vars

\* the sixth attempt of the scenario: the trigger is held with ammo (0, 60)
\* and nothing is fired
C2_Witness ==
    /\ step = "update"
    /\ fireLog.held
    /\ ~fireLog.fired
    /\ fireLog.ammoBefore = 0
    /\ currentAmmo = 0
    /\ reserveAmmo = InitialReserveAmmo
    /\ ~isReloading

\* the entries of hitLog are in the order the bullet pass made them: each
\* starts from the zombies the previous one left, and the last one leaves the
\* zombies of the state
HitLogChained ==
    /\ \A k \in 1..(Len(hitLog) - 1) : hitLog[k + 1].before = hitLog[k].after
    /\ hitLog # <<>> => hitLog[Len(hitLog)].after = zombies

\* C3: in one update a live projectile whose segment intersects one or more
\* hostiles takes exactly 1 health from exactly one of them, is removed as
\* dead and is not tested against the world; one that meets no hostile but
\* meets the ground or an obstacle is removed without damaging any hostile.
C3_OneHitPerProjectile ==
    step = "update" =>
      /\ HitLogChained
      /\ \A k \in 1..Len(hitLog) :
           LET e == hitLog[k]
           IN  /\ e.ray # {} =>
                    /\ e.hit \in e.ray
                    /\ e.after[e.hit].health = e.before[e.hit].health - 1
                    /\ \A j \in 1..Len(e.before) :
                          j # e.hit => e.after[j] = e.before[j]
                    /\ Len(e.after) = Len(e.before)
                    /\ e.removed
                    /\ ~e.envTested
               /\ (e.ray = {} /\ e.env # "none") =>
                    /\ e.envTested
                    /\ e.removed
                    /\ e.after = e.before
               /\ (e.ray = {} /\ e.env = "none") =>
                    /\ ~e.removed
                    /\ e.after = e.before
      /\ Len(bullets) = Cardinality({k \in 1..Len(hitLog) : ~hitLog[k].removed})

\* one update in which a projectile met two hostiles at once and another
\* projectile met only the ground
C3_Witness ==
    /\ step = "update"
    /\ \E k \in 1..Len(hitLog) : Cardinality(hitLog[k].ray) >= 2 /\ hitLog[k].removed
    /\ \E k \in 1..Len(hitLog) :
          hitLog[k].ray = {} /\ hitLog[k].env = "ground" /\ hitLog[k].removed

\* C4 as stated: of several hostiles met by one segment, the one with the
\* smallest index in the manager's list is damaged.
C4_EarliestIndexWins ==
    step = "update" =>
      \A k \in 1..Len(hitLog) :
         hitLog[k].ray # {} =>
            /\ hitLog[k].hit \in hitLog[k].ray
            /\ \A j \in hitLog[k].ray : hitLog[k].hit <= j

\* C4 amended: the inner loop runs from the last index down, so of several
\* hostiles met by one segment the one with the largest index is damaged.
C4_LatestIndexWins ==
    step = "update" =>
      \A k \in 1..Len(hitLog) :
         hitLog[k].ray # {} =>
            /\ hitLog[k].hit \in hitLog[k].ray
            /\ \A j \in hitLog[k].ray : hitLog[k].hit >= j
            /\ hitLog[k].after[hitLog[k].hit] # hitLog[k].before[hitLog[k].hit]

\* a segment met two hostiles and the second of the list took the damage
C4_Witness ==
    /\ step = "update"
    /\ \E k \in 1..Len(hitLog) :
          /\ hitLog[k].ray = {1, 2}
          /\ hitLog[k].hit = 2
          /\ hitLog[k].after[2].health = hitLog[k].before[2].health - 1
          /\ hitLog[k].after[1] = hitLog[k].before[1]

IsNearestChunk(c, x) ==
    /\ 2 * x >= 2 * chunkSize * c - chunkSize
    /\ 2 * x < 2 * chunkSize * c + chunkSize

Neighbourhood(cx, cz) ==
    {<<x, z>> : x \in (cx - loadDistance)..(cx + loadDistance),
                z \in (cz - loadDistance)..(cz + loadDistance)}

ChunkCoords == -10..10

HeldIsNeighbourhood ==
    \E cx \in ChunkCoords, cz \in ChunkCoords :
       /\ IsNearestChunk(cx, pos[1])
       /\ IsNearestChunk(cz, pos[2])
       /\ DOMAIN chunks = Neighbourhood(cx, cz)
       /\ Cardinality(DOMAIN chunks) = 25
       /\ \A k1 \in DOMAIN chunks, k2 \in DOMAIN chunks :
             k1 # k2 => chunks[k1].id # chunks[k2].id

StaleDisposed ==
    step' = "update" =>
       \A k \in DOMAIN chunks \ DOMAIN chunks' :
          /\ ChunkMeshes(chunks[k]) \subseteq disposedMeshes'
          /\ \A m \in ChunkMeshes(chunks[k]) :
                m \notin Range(obstacles') \cup Range(healthPacks') \cup Range(ammoPacks')

\* C6: after every Environment.update(focus) the held chunk coordinates are
\* exactly the 5 x 5 square around (round(focus.x / 60), round(focus.z / 60)),
\* one chunk per coordinate, and every chunk that became stale was disposed
\* within that update.
C6_HeldChunks == [](HeldIsNeighbourhood) /\ [][StaleDisposed]_vars

\* the focus sits on a rounding boundary, chunks were created and disposed
C6_Witness ==
    /\ step = "update"
    /\ pos = <<-31, 60>>
    /\ envLog.created > 0
    /\ envLog.disposed # {}
    /\ DOMAIN chunks = Neighbourhood(-1, 1)

\* C7: the aggregate obstacles, healthPacks and ammoPacks lists are the
\* unions of the corresponding lists of the held chunks.
C7_AggregatesAreUnions ==
    /\ Range(obstacles) = UNION {Range(chunks[k].obstacles) : k \in DOMAIN chunks}
    /\ Range(healthPacks) = UNION {Range(chunks[k].healthPacks) : k \in DOMAIN chunks}
    /\ Range(ammoPacks) = UNION {Range(chunks[k].ammoPacks) : k \in DOMAIN chunks}

\* C8: an update disposes exactly the held chunks outside the new
\* neighbourhood, creates exactly the coordinates that were not held, and
\* leaves the chunks of both neighbourhoods as they were.
C8_OnlyTheDifferenceChanges ==
    [][step' = "update" =>
         LET c == CenterChunk(pos')
             N == Neighbourhood(c[1], c[2])
         IN
         /\ DOMAIN chunks \ DOMAIN chunks' = DOMAIN chunks \ N
         /\ DOMAIN chunks' \ DOMAIN chunks = N \ DOMAIN chunks
         /\ envLog'.disposed = DOMAIN chunks \ DOMAIN chunks'
         /\ envLog'.created = Cardinality(DOMAIN chunks' \ DOMAIN chunks)
         /\ \A k \in DOMAIN chunks \cap DOMAIN chunks' : chunks'[k] = chunks[k]
         /\ \A k \in DOMAIN chunks' \ DOMAIN chunks : chunks'[k].id > chunksCreated
         /\ \A k \in DOMAIN chunks \ DOMAIN chunks' :
               chunks[k].ground \in disposedMeshes'
         /\ \A k \in DOMAIN chunks \cap DOMAIN chunks' :
               /\ chunks[k].ground \notin disposedMeshes'
               /\ Range(chunks[k].obstacles) \subseteq Range(obstacles')]_vars

\* the move of the scenario, from chunk (0, 0) to chunk (3, 0): the chunks
\* with x < 1 are disposed, x = 1, 2 are the ones made by the constructor and
\* x = 3, 4, 5 are new
C8_Witness ==
    /\ step = "update"
    /\ pos = <<180, 0>>
    /\ envLog.disposed = {<<x, z>> : x \in -2..0, z \in -2..2}
    /\ envLog.created = 15
    /\ \A z \in -2..2 : chunks[<<1, z>>].id <= 25 /\ chunks[<<2, z>>].id <= 25
    /\ \A x \in 3..5, z \in -2..2 : chunks[<<x, z>>].id > 25

\* C9: an update whose focus maps to the chunk coordinate of the previous
\* one creates no chunk, disposes none and leaves the chunk map and the three
\* aggregate lists as they were.
C9_UpdateIdempotent ==
    [][(step' = "update" /\ CenterChunk(pos') = CenterChunk(pos)) =>
         /\ envLog'.created = 0
         /\ envLog'.disposed = {}
         /\ envLog'.unchanged
         /\ chunks' = chunks
         /\ chunksCreated' = chunksCreated
         /\ obstacles' = obstacles]_vars

\* a second update for chunk (0, 0), from another position, after a pack had
\* been consumed in an earlier frame
C9_Witness ==
    /\ step = "update"
    /\ pos = <<29, -30>>
    /\ chunksCreated = 25
    /\ envLog.created = 0
    /\ envLog.unchanged
    /\ disposedMeshes # {}
    /\ pickLog.touchH = {}
    /\ pickLog.touchA = {}
    /\ ticks >= 2

(***************************************************************************)
(* Pickup properties                                                       *)
(***************************************************************************)
\* C10: in one update every health pack that touches the player is consumed:
\* health becomes min(100, health + 25) for each and the pack leaves the list;
\* every touching ammo pack adds exactly 20 to the reserve, leaves the
\* magazine alone and leaves the list.
C10_PacksConsumed ==
    step = "update" =>
      LET pl == pickLog
      IN  /\ Range(healthPacks) = Range(pl.hpBefore) \ pl.touchH
          /\ Len(healthPacks) = Len(pl.hpBefore) - Cardinality(pl.touchH)
          /\ pl.touchH \subseteq disposedMeshes
          /\ Len(pl.hlog) = Cardinality(pl.touchH)
          /\ {pl.hlog[k].mesh : k \in 1..Len(pl.hlog)} = pl.touchH
          /\ \A k \in 1..Len(pl.hlog) :
                /\ pl.hlog[k].before =
                      IF k = 1 THEN pl.healthBefore ELSE pl.hlog[k - 1].after
                /\ pl.hlog[k].after =
                      IF pl.hlog[k].before + HealthPackRestore > MaxHealth
                      THEN MaxHealth ELSE pl.hlog[k].before + HealthPackRestore
          /\ health = IF pl.hlog = <<>> THEN pl.healthBefore
                      ELSE pl.hlog[Len(pl.hlog)].after
          /\ Range(ammoPacks) = Range(pl.apBefore) \ pl.touchA
          /\ Len(ammoPacks) = Len(pl.apBefore) - Cardinality(pl.touchA)
          /\ pl.touchA \subseteq disposedMeshes
          /\ Len(pl.alog) = Cardinality(pl.touchA)
          /\ reserveAmmo = pl.reserveBefore + AmmoPackAmount * Cardinality(pl.touchA)
          /\ currentAmmo = pl.ammoBefore

\* a health pack and an ammo pack overlap the player in the same update; the
\* restore would pass 100 and is capped
C10_Witness ==
    /\ step = "update"
    /\ Cardinality(pickLog.touchH) = 1
    /\ Cardinality(pickLog.touchA) = 1
    /\ pickLog.healthBefore < MaxHealth
    /\ pickLog.healthBefore + HealthPackRestore > MaxHealth
    /\ health = MaxHealth
    /\ reserveAmmo = InitialReserveAmmo + AmmoPackAmount

LogMeshes(log) == {log[k].mesh : k \in 1..Len(log)}

NoDisposedPackListed ==
    /\ Range(healthPacks) \cap disposedMeshes = {}
    /\ Range(ammoPacks) \cap disposedMeshes = {}

ConsumedOnce ==
    step' = "update" =>
       /\ disposedMeshes \subseteq disposedMeshes'
       /\ LogMeshes(pickLog'.hlog) \cap disposedMeshes = {}
       /\ LogMeshes(pickLog'.alog) \cap disposedMeshes = {}
       /\ Cardinality(LogMeshes(pickLog'.hlog)) = Len(pickLog'.hlog)
       /\ Cardinality(LogMeshes(pickLog'.alog)) = Len(pickLog'.alog)
       /\ LogMeshes(pickLog'.hlog) \cup LogMeshes(pickLog'.alog)
             \subseteq disposedMeshes'

\* C11: no pack is consumed twice.  A pack that gives its effect in an update
\* had not been disposed before, gives it once in that update and is disposed
\* by it; what is disposed stays disposed, and no disposed pack stands in an
\* active list, also after its chunk was disposed and made again.
C11_ConsumedAtMostOnce == [](NoDisposedPackListed) /\ [][ConsumedOnce]_vars

\* the ammo pack of the first chunk (0, 0) was consumed, the chunk was disposed
\* and made again, and the pack of the new chunk is consumed now
C11_Witness ==
    /\ step = "update"
    /\ pos = <<0, 0>>
    /\ chunks[<<0, 0>>].id > 25
    /\ Cardinality(pickLog.touchA) = 1
    /\ reserveAmmo = InitialReserveAmmo + 2 * AmmoPackAmount

ZombieIds(zs) == {zs[k].id : k \in 1..Len(zs)}

DeadIffNoHealth ==
    \A k \in 1..Len(zombies) : (zombies[k].health <= 0) <=> zombies[k].dead

HealthNeverRises ==
    \A k \in 1..Len(zombies) : \A l \in 1..Len(zombies') :
       zombies'[l].id = zombies[k].id =>
          /\ zombies'[l].health <= zombies[k].health
          /\ zombies[k].dead => zombies'[l].dead
          /\ zombies'[l].type = zombies[k].type

\* C12: the health of a hostile never goes up, a hostile is dead exactly when
\* its health is 0 or less, and a dead hostile does not come back to life.
C12_HealthAndDeath == [](DeadIffNoHealth) /\ [][HealthNeverRises]_vars

\* one hostile took its second hit in this update and stands dead in the
\* list, next to one that is alive
C12_Witness ==
    /\ step = "update"
    /\ \E k \in 1..Len(zombies) :
          /\ zombies[k].dead
          /\ zombies[k].health <= 0
          /\ \E h \in 1..Len(hitLog) :
                /\ hitLog[h].hit = k
                /\ hitLog[h].before[k].health = 1
    /\ \E k \in 1..Len(zombies) : ~zombies[k].dead /\ zombies[k].health > 0

AtMostOneSpawn ==
    step' = "update" =>
       /\ Len(zombies') <= Len(zombies) + 1
       /\ zombiesCreated' <= zombiesCreated + 1

\* C13: the hostile list never holds more than maxZombies (100) entries, and
\* one update adds at most one hostile.
C13_PopulationCap == [](Len(zombies) <= maxZombies) /\ [][AtMostOneSpawn]_vars

\* the list is full and the spawn timer has run past the interval: the cap
\* alone kept this update from spawning
C13_Witness ==
    /\ step = "update"
    /\ Len(zombies) = maxZombies
    /\ zombiesCreated = maxZombies
    /\ spawnTimer * 1000 > spawnInterval

\* the spawn of the coming update is attempted: the timer passes the interval
\* and the list is below the cap
SpawnAttempted(dt) ==
    /\ (spawnTimer + dt) * 1000 > spawnInterval
    /\ Len(zombies) < maxZombies

\* none of the ten probes picks the ground mesh
AllProbesMiss(probes) ==
    \A i \in 1..MaxProbeAttempts :
       \/ probes[i].obstacle
       \/ ~probes[i].ground
       \/ envGround # "mesh"

\* C14: when a spawn is attempted and all 10 probes miss the ground, no
\* hostile is added in that update (the list keeps its entries), and still
\* spawnTimer is back at 0 and spawnInterval is 0.99 of what it was, not less
\* than 0.5 s.
C14_FailedSpawn ==
    [][(step' = "update" /\ SpawnAttempted(spawnLog'.dt)
                         /\ AllProbesMiss(spawnLog'.probes)) =>
         /\ zombiesCreated' = zombiesCreated
         /\ ZombieIds(zombies') \subseteq ZombieIds(zombies)
         /\ Len(zombies') <= Len(zombies)
         /\ \A k \in 1..Len(zombies) :
               ~zombies[k].dead => zombies[k].id \in ZombieIds(zombies')
         /\ spawnTimer' = 0
         /\ spawnInterval' =
               IF (spawnInterval * 99) \div 100 < MinSpawnInterval
               THEN MinSpawnInterval ELSE (spawnInterval * 99) \div 100]_vars

\* a failed attempt at the floor of the interval, with the one hostile made
\* earlier still in the list
C14_Witness ==
    /\ step = "update"
    /\ spawnLog.probes \in ProbesOffGround
    /\ spawnTimer = 0
    /\ spawnInterval = MinSpawnInterval
    /\ Len(zombies) = 1

\* C15: once isGameOver is true it stays true, the frame callback no longer
\* runs update, and togglePause changes nothing.
C15_GameOverTerminal ==
    [][isGameOver =>
         /\ isGameOver'
         /\ step' # "update"
         /\ isPaused' = isPaused
         /\ step' \in {"idle", "togglePause"} =>
               UNCHANGED <<health, currentAmmo, reserveAmmo, isReloading, bullets,
                           pos, pitch, envVars, zombieVars, appVars, ticks>>]_vars

\* the pause key is pressed after the game is over
C15_Witness ==
    /\ isGameOver
    /\ ~renderLoop
    /\ step = "togglePause"
    /\ ~isPaused
    /\ gameOverCalls >= 1

\* the number of projectiles the handleShooting call of the last update fired
Fired == fireLog.nAfter - fireLog.nBefore

FireConditions ==
    /\ fireLog.held
    /\ fireLog.ammoBefore > 0
    /\ ~fireLog.reloading

\* C16 as stated: a projectile is fired in an update if and only if the fire
\* intent is held, currentAmmo > 0, no reload is in progress and the time
\* since the last shot is at least fireRate; at most one is fired.
C16_FiresAtFireRate ==
    step = "update" =>
       /\ Fired \in {0, 1}
       /\ Fired = 1 <=> (FireConditions /\ fireLog.since >= fireRate)

\* C16 amended: above fireRate the shot is fired, below it is not, and at
\* exactly fireRate the comparison now - lastShotTime > fireRate decides,
\* either way; nothing is fired unless the intent is held, currentAmmo > 0 and
\* no reload is in progress; at most one projectile is fired per update.
C16_FiresAboveFireRate ==
    step = "update" =>
       /\ Fired \in {0, 1}
       /\ Fired = 1 => (FireConditions /\ fireLog.since >= fireRate)
       /\ (FireConditions /\ fireLog.since > fireRate) => Fired = 1

\* the trigger is held with rounds in the magazine, no reload runs, exactly
\* fireRate ms have gone by since the last shot, and nothing is fired
C16_Witness ==
    /\ step = "update"
    /\ FireConditions
    /\ fireLog.since = fireRate
    /\ Fired = 0
    /\ currentAmmo < maxMagAmmo

\* a reload is in progress exactly while its timer is pending
ReloadPending == isReloading <=> reloadTimer >= 0

NoShotWhileReloading ==
    isReloading =>
       \/ step' = "reloadDone"
       \/ /\ isReloading'
          /\ currentAmmo' = currentAmmo
          /\ fireLog'.nAfter = fireLog'.nBefore
          /\ ~fireLog'.fired

\* C17: from the start of a reload until its timer completes no shot is
\* fired and currentAmmo keeps its value, so the completion finds the magazine
\* as the reload request left it.
C17_ReloadExcludesFire == [](ReloadPending) /\ [][NoShotWhileReloading]_vars

\* an update during a reload: the trigger is held, rounds are left and the
\* fire rate allows a shot, yet nothing is fired
C17_Witness ==
    /\ step = "update"
    /\ isReloading
    /\ fireLog.held
    /\ fireLog.reloading
    /\ fireLog.ammoBefore > 0
    /\ fireLog.since > fireRate
    /\ Fired = 0
    /\ currentAmmo = fireLog.ammoBefore

ReloadRequestRules ==
    /\ (step' = "keyR" /\ (isReloading \/ currentAmmo = maxMagAmmo
                                       \/ reserveAmmo <= 0)) =>
          UNCHANGED <<playerVars, envVars, zombieVars, appVars>>
    /\ reloadTimer' > reloadTimer =>
          (step' = "keyR" /\ reloadTimer = -1 /\ ~isReloading)
    /\ (~isReloading /\ isReloading') => step' = "keyR"
    /\ (step' = "update" /\ currentAmmo' = 0) =>
          (isReloading' = isReloading /\ reloadTimer' <= reloadTimer)

\* C18: a reload request changes nothing and schedules no timer when a reload
\* is in progress, when the magazine is full or when the reserve is empty; a
\* timer is scheduled only when none is pending; and a reload starts only on
\* a request, never by the magazine running empty.
C18_ReloadRequestNoOp == [][ReloadRequestRules]_vars

\* the key is pressed while the timer of the reload in progress is still
\* pending: the request is dropped and the timer stays as it was
C18_Witness ==
    /\ step = "keyR"
    /\ isReloading
    /\ reloadTimer = 0
    /\ currentAmmo < maxMagAmmo
    /\ reserveAmmo > 0

\* the rounds the completing reload moves: what the magazine lacks, or the
\* whole reserve when that is less, both read when the timer fires
ToMove ==
    IF maxMagAmmo - currentAmmo <= reserveAmmo THEN maxMagAmmo - currentAmmo
    ELSE reserveAmmo

\* C19: the completion of a reload moves exactly min(maxMagAmmo - currentAmmo,
\* reserveAmmo) rounds, with the values of the moment it runs, from the
\* reserve into the magazine, clears the reloading flag and keeps
\* currentAmmo + reserveAmmo.
C19_ReloadCompletion ==
    [][step' = "reloadDone" =>
         /\ isReloading
         /\ currentAmmo' = currentAmmo + ToMove
         /\ reserveAmmo' = reserveAmmo - ToMove
         /\ currentAmmo' + reserveAmmo' = currentAmmo + reserveAmmo
         /\ ~isReloading'
         /\ reloadTimer' = -1]_vars

\* a reload has completed with the rounds of the ammo pack in the reserve:
\* the magazine is full and the reserve holds what only the pack can have
\* brought
C19_Witness ==
    /\ step = "reloadDone"
    /\ ~isReloading
    /\ currentAmmo = maxMagAmmo
    /\ reserveAmmo = InitialReserveAmmo + AmmoPackAmount - maxMagAmmo
    /\ AmmoPackMesh(chunks[<<0, 0>>].id) \in disposedMeshes
    /\ AmmoPackMesh(chunks[<<0, 0>>].id) \notin Range(ammoPacks)

\* C20: a reload timer scheduled before the game was over and firing after it
\* changes nothing: currentAmmo, reserveAmmo and the other variables of the
\* simulation stay as they are.  (The state left by the update that ended the
\* game holds the timer still pending.)
C20_LateReloadNoOp ==
    [][(step = "update" /\ isGameOver /\ reloadTimer = 0
                        /\ step' = "reloadDone") =>
         /\ currentAmmo' = currentAmmo
         /\ reserveAmmo' = reserveAmmo
         /\ UNCHANGED <<health, bullets, pos, pitch, envVars, zombieVars, appVars>>]_vars

\* what GameApp.update writes
SimulationVars ==
    <<health, currentAmmo, reserveAmmo, isReloading, bullets, pos, pitch, envVars,
      zombieVars, score, isGameOver, renderLoop, gameOverCalls>>

PauseGatesUpdate ==
    /\ isPaused => step' # "update"
    /\ (isPaused /\ step' = "idle") => UNCHANGED <<SimulationVars, isPaused>>
    /\ step' = "togglePause" => UNCHANGED <<SimulationVars, mouseLeft, reloadTimer>>
    /\ step' = "update" => (~isPaused /\ ~isPaused')

\* C21: while isPaused is true a frame callback runs no step of update, and
\* a pause toggle is a step of its own that changes nothing of the
\* simulation: an update is entered unpaused and ends unpaused.
C21_PauseGatesUpdate == [][PauseGatesUpdate]_vars

\* a frame goes by while the game is paused, with the trigger held, rounds in
\* the magazine and a hostile in the list
C21_Witness ==
    /\ step = "idle"
    /\ isPaused
    /\ ~isGameOver
    /\ renderLoop
    /\ mouseLeft
    /\ currentAmmo > 0
    /\ ~isReloading
    /\ Len(zombies) > 0

NoDeadProjectileListed ==
    \A i \in 1..Len(bullets) : ~bullets[i].isDead /\ bullets[i].life > 0

\* the projectiles the collision pass of the update took out
RemovedByHit(log) == {k \in 1..Len(log) : log[k].removed}

DeadProjectilesLeave ==
    step' = "update" =>
       /\ Len(hitLog') <= fireLog'.nAfter
       /\ Len(bullets') = Len(hitLog') - Cardinality(RemovedByHit(hitLog'))

\* C22: at the end of every update the projectile list holds no projectile
\* that is dead: one whose lifetime ran out, or that hit a hostile or the
\* world, has left the list in the same update.
C22_NoDeadProjectile == [](NoDeadProjectileListed) /\ [][DeadProjectilesLeave]_vars

\* of three projectiles one ran out of lifetime, one hit a hostile and one
\* hit the ground in this update: the list is empty
C22_Witness ==
    /\ step = "update"
    /\ fireLog.nAfter = 3
    /\ Len(hitLog) = 2
    /\ \E k \in 1..2 : hitLog[k].removed /\ hitLog[k].hit > 0
    /\ \E k \in 1..2 : hitLog[k].removed /\ hitLog[k].hit = 0
    /\ bullets = <<>>

\* the hostile at index k of the list was killed by the collision pass of the
\* update that `log` records
DiedInPass(log, id) ==
    \E h \in 1..Len(log) :
       /\ log[h].hit > 0
       /\ log[h].after[log[h].hit].id = id
       /\ log[h].after[log[h].hit].dead

DeadLeaveNextUpdate ==
    step' = "update" =>
       /\ \A k \in 1..Len(zombies) :
             zombies[k].dead => zombies[k].id \notin ZombieIds(zombies')
       /\ \A l \in 1..Len(zombies') :
             zombies'[l].dead => DiedInPass(hitLog', zombies'[l].id)
       /\ \A h \in 1..Len(hitLog') :
             \A k \in 1..Len(hitLog'[h].before) :
                hitLog'[h].before[k].dead =>
                   hitLog'[h].before[k].id \notin ZombieIds(zombies)
                   \/ \E k0 \in 1..Len(zombies) :
                         /\ zombies[k0].id = hitLog'[h].before[k].id
                         /\ ~zombies[k0].dead

\* C23: a hostile that died is out of the list after the ZombieManager.update
\* of the next update: every dead hostile of the list leaves it in the next
\* update, and a dead hostile stands in the list only when the collision pass
\* of that same update, which runs after ZombieManager.update, killed it.
C23_DeadHostileRemoved == [][DeadLeaveNextUpdate]_vars

\* the update after a kill: the killed hostile is gone, nothing died in this
\* update and another hostile is still there
C23_Witness ==
    /\ step = "update"
    /\ score >= 1
    /\ zombiesCreated = 2
    /\ Len(zombies) = 1
    /\ ~zombies[1].dead
    /\ \A h \in 1..Len(hitLog) : hitLog[h].hit = 0

(***************************************************************************)
(* The controls layout: edit, save and load                                *)
(***************************************************************************)
\* a layout saved earlier with one control enlarged
EnlargedLayout == [defaultLayout EXCEPT !["shoot"] = ScaleUp(@)]

\* the text of l without the member key
WithoutMember(text, key) ==
    [text EXCEPT !.members[key] = NoMember]

\* the text of l with the field f of the member key spelled x
WithField(text, key, f, x) ==
    [text EXCEPT !.members[key].fields[f] = x]

\* what the storage may hold when the page is loaded: nothing, text written
\* by saveLayout, text of another origin
StoredTexts ==
    {StoredText(k) : k \in {"none", "empty", "garbage", "primitive", "object"}}
    \cup {JSONstringify(defaultLayout), JSONstringify(EnlargedLayout)}
    \cup {WithoutMember(JSONstringify(EnlargedLayout), key) : key \in Controls}
    \cup {WithField(JSONstringify(defaultLayout), "leftStick", "widthPx", x) :
             x \in {NoText, NullText, HugeText}}

EditedKeys == {"leftStick", "shoot"}
Moves == {<<5, -5>>}

InitLayout == InitGame({0}, {"mesh"}) /\ InitControls(StoredTexts)

ScalePlusLayout == ScalePlus(EditedKeys)
ScaleMinusLayout == ScaleMinus(EditedKeys)
DragLayout == Drag(EditedKeys, Moves)

NextLayout ==
    \/ EnterEditMode
    \/ ScalePlusLayout
    \/ ScaleMinusLayout
    \/ DragLayout
    \/ ExitEditMode
    \/ ResetLayout
    \/ Construct

SpecLayout == InitLayout /\ [][NextLayout]_vars

SameFields(l1, l2) ==
    \A c \in Controls : \A f \in Fields : l1[c][f] = l2[c][f]

\* C24: the layout a constructor loads after a saveLayout has, for each of the
\* seven controls, the leftPx, topPx, widthPx and heightPx of the layout that
\* was saved.
C24_SaveLoadRoundTrip ==
    (step = "construct" /\ saved.done) => SameFields(layout, saved.layout)

\* every field of the layout is a finite number
FiniteLayout(l) == \A c \in Controls : \A f \in Fields : l[c][f].t = "number"

\* the round trip holds for the layouts whose fields are all finite numbers
FiniteRoundTrip ==
    (step = "construct" /\ saved.done /\ FiniteLayout(saved.layout))
       => SameFields(layout, saved.layout)

\* the stored text has no layout object with all seven keys
Incomplete(text) ==
    \/ text.kind \in {"none", "empty", "garbage", "primitive"}
    \/ \E key \in Controls : ~text.members[key].present

\* C25: a constructor that finds nothing stored, text that does not parse or a
\* stored layout without one of the seven keys has exactly the default layout,
\* and no exception leaves it.
C25_IncompleteGivesDefault ==
    (step \in {"init", "construct"} /\ Incomplete(storage))
       => (layout = defaultLayout /\ ~raised)

\* text that does not parse has been read
UnparsableRead ==
    /\ step = "init"
    /\ storage.kind = "garbage"
    /\ layout = defaultLayout
    /\ ~raised

\* a stored layout that differs from the default one and lacks the key pause
\* has been read
C25_Witness ==
    /\ step = "init"
    /\ storage = WithoutMember(JSONstringify(EnlargedLayout), "pause")
    /\ layout = defaultLayout

\* the elements of s at the indices of S, in order
Picked(s, S) ==
    LET F[i \in 0..Len(s)] ==
          IF i = 0 THEN <<>>
          ELSE IF i \in S THEN Append(F[i - 1], s[i]) ELSE F[i - 1]
    IN  F[Len(s)]

\* the list at the start of the update, with the projectile fired in it, each
\* projectile dt older
Aged(bs, fired, dt) ==
    LET b1 == IF fired THEN Append(bs, NewBullet) ELSE bs
    IN  [i \in 1..Len(b1) |-> [b1[i] EXCEPT !.life = b1[i].life - dt]]

\* Of the projectiles of an update, those whose lifetime ran out leave in
\* Player.updateBullets and have no collision test; each of the others has
\* exactly one collision test, from the last index down whatever was removed
\* on the way, and leaves in the pass exactly when its test removed it.
EachProjectileOnce ==
    step' = "update" =>
       LET aged == Aged(bullets, fireLog'.fired, spawnLog'.dt)
           live == SelectSeq(aged, LAMBDA b : b.life > 0)
           n == Len(live)
           removed == {hitLog'[k].b : k \in RemovedByHit(hitLog')}
       IN  /\ Len(hitLog') = n
           /\ \A k \in 1..n : hitLog'[k].b = n - k + 1
           /\ bullets' = Picked(live, (1..n) \ removed)

\* C26: in one update a projectile leaves the list at most once, in
\* Player.updateBullets or in the collision pass, and every projectile that
\* Player.updateBullets left in the list has its collision test, whatever the
\* pass removed before it.
C26_RemovedOnceTestedOnce == [][EachProjectileOnce]_vars

\* of three projectiles the first ran out of lifetime, the third was removed by
\* the pass and the second, tested after that removal, stays
C26_Witness ==
    /\ step = "update"
    /\ fireLog.nAfter = 3
    /\ Len(hitLog) = 2
    /\ hitLog[1].b = 2 /\ hitLog[1].removed
    /\ hitLog[2].b = 1 /\ ~hitLog[2].removed
    /\ Len(bullets) = 1

(***************************************************************************)
(* The order of the steps of GameApp.update                                *)
(***************************************************************************)
\* a frame in which everything can happen: the player moves to another chunk
\* and fires, a hostile is spawned, hit and touches the player, a health pack
\* is picked up
CfgOrder ==
    [dts |-> {1300}, poss |-> {<<0, 0>>, <<60, 60>>}, seeds |-> {0}, rands |-> {500},
     probes |-> {ProbesAll(Under(FALSE, TRUE))}, envs |-> {"none"},
     zray |-> TRUE, ztouch |-> TRUE, htouch |-> TRUE, atouch |-> TRUE,
     reach |-> 0, maxTicks |-> MaxOrderTicks,
     maxHostiles |-> MaxHostiles, maxSpawned |-> MaxSpawned]

InitOrder == InitWith({0}, {"mesh"})

FrameOrder == Frame(CfgOrder)

NextOrder ==
    \/ FrameOrder
    \/ PointerDown

SpecOrder == InitOrder /\ [][NextOrder]_vars

\* the health after n health packs, one after the other
RECURSIVE AfterPacks(_, _)
AfterPacks(h, n) ==
    IF n = 0 THEN h ELSE AfterPacks(Min(MaxHealth, h + HealthPackRestore), n - 1)

\* the hostiles of the list zs that touch the player and are not dead
LiveTouching(zs, touch) == {k \in touch : k <= Len(zs) /\ ~zs[k].dead}

\* What an update leaves shows the order of its steps.
OrderOfUpdate ==
    step' = "update" =>
       LET dt == spawnLog'.dt
           live == SelectSeq(Aged(bullets, fireLog'.fired, dt),
                             LAMBDA b : b.life > 0)
           k == Cardinality(LiveTouching(zombies', touchLog'))
       IN  \* Player.update before the pass: the projectile fired in this
           \* update has its collision test in it
           /\ Len(hitLog') = Len(live)
           \* Environment.update after the move, and no later step loads or
           \* drops a chunk: the 25 chunks around the player's chunk are held
           /\ HeldIsNeighbourhood'
           \* ZombieManager.update before the pass: the pass meets the hostile
           \* spawned in this update and no hostile that was dead before it
           /\ \A h \in 1..Len(hitLog') :
                 /\ zombiesCreated' > zombiesCreated
                       => zombiesCreated' \in ZombieIds(hitLog'[h].before)
                 /\ \A z \in 1..Len(zombies) :
                       zombies[z].dead
                          => zombies[z].id \notin ZombieIds(hitLog'[h].before)
           \* the pass before the damage: a hostile the pass killed does no
           \* damage
           /\ pickLog'.healthBefore = health - k * TouchDamage(dt)
           \* the damage before the packs: game over is decided on the health
           \* the packs have not yet restored
           /\ isGameOver' = (isGameOver \/ (k > 0 /\ pickLog'.healthBefore <= 0))
           /\ health' = AfterPacks(pickLog'.healthBefore, Len(pickLog'.hlog))
           \* the labels last
           /\ healthLabel' = MathCeil(health')
           /\ ammoLabel' = <<currentAmmo', reserveAmmo'>>

\* C27: an update runs Player.update, Environment.update on the position the
\* player moved to, ZombieManager.update, the projectile pass, the damage of
\* the hostiles, the pickups and the labels, in this order; the 25 chunks
\* around the player's chunk are held when hostiles spawn and collisions are
\* resolved.
C27_OrderOfUpdate == [][OrderOfUpdate]_vars

\* one update in which the player moved to another chunk and fired, and a
\* hostile was spawned, hit by that projectile and touched the player, who
\* picked up a health pack
C27_Witness ==
    /\ step = "update"
    /\ envLog.created > 0
    /\ fireLog.fired
    /\ Len(hitLog) = 1
    /\ hitLog[1].hit > 0
    /\ Len(hitLog[1].before) = 1
    /\ touchLog # {}
    /\ pickLog.healthBefore < InitialHealth
    /\ pickLog.hlog # <<>>

(***************************************************************************)
(* The damage of the hostiles                                              *)
(***************************************************************************)
\* short frames in which a projectile can kill a hostile and long ones in
\* which the hostiles take most of the player's health
CfgDamage ==
    [dts |-> {1300, 9000}, poss |-> {<<0, 0>>}, seeds |-> {0}, rands |-> {800},
     probes |-> {ProbesAll(Under(FALSE, TRUE))}, envs |-> {"none"},
     zray |-> TRUE, ztouch |-> TRUE, htouch |-> FALSE, atouch |-> FALSE,
     reach |-> 0, maxTicks |-> MaxDamageTicks,
     maxHostiles |-> MaxHostiles, maxSpawned |-> MaxSpawned]

InitDamage == InitWith({0}, {"mesh"})

FrameDamage == Frame(CfgDamage)

NextDamage ==
    \/ FrameDamage
    \/ PointerDown

SpecDamage == InitDamage /\ [][NextDamage]_vars

\* health after the zombie-player pass of an update, and whether the update
\* ended the game
DamageOfUpdate ==
    step' = "update" =>
       LET dt == spawnLog'.dt
           k == Cardinality({z \in touchLog' : ~zombies'[z].dead})
       IN  /\ 1000 * (health - pickLog'.healthBefore) = 100 * (10 * dt * k)
           /\ isGameOver' <=> pickLog'.healthBefore <= 0

\* C28: an update in which k hostiles that are not dead intersect the player
\* takes 10 * dt * k from the player's health, whatever dead hostiles
\* intersect it, and the game is over after that update exactly when this took
\* the health to 0 or below.
C28_DamagePerHostile == [][DamageOfUpdate]_vars

\* a hostile killed in this update and one that is not dead both touch the
\* player, and the damage of the one ends the game
C28_Witness ==
    /\ step = "update"
    /\ Len(zombies) = 2
    /\ touchLog = {1, 2}
    /\ zombies[1].dead
    /\ ~zombies[2].dead
    /\ pickLog.healthBefore <= 0
    /\ pickLog.healthBefore > -TouchDamage(spawnLog.dt)
    /\ isGameOver

(***************************************************************************)
(* The spawner                                                             *)
(***************************************************************************)
\* nothing is killed; a spawn attempt finds open ground under every probe or
\* an obstacle under every probe, with either Environment, until the list is
\* full and the interval is at its floor
CfgSpawner ==
    [dts |-> {1300, 2600}, poss |-> {<<0, 0>>}, seeds |-> {0}, rands |-> {500},
     probes |-> {ProbesAll(Under(FALSE, TRUE)), ProbesAll(Under(TRUE, TRUE))},
     envs |-> {"none"},
     zray |-> FALSE, ztouch |-> FALSE, htouch |-> FALSE, atouch |-> FALSE,
     reach |-> 0, maxTicks |-> 0,
     maxHostiles |-> maxZombies + 2, maxSpawned |-> maxZombies + 2]

InitSpawner == InitWith({0}, {"undefined", "mesh"})

FrameSpawner == Frame(CfgSpawner)

NextSpawner == FrameSpawner

SpecSpawner == InitSpawner /\ [][NextSpawner]_vars

\* probe i finds a ground patch of a loaded chunk first: no obstacle above it
LandsOnGround(probes, i) == ~probes[i].obstacle /\ probes[i].ground

\* C29: a spawn attempt adds a hostile exactly when one of its at most 10
\* probes lands first on a ground patch of a loaded chunk, and adds none
\* otherwise.
C29_SpawnIffProbeOnGround ==
    [][(step' = "update" /\ SpawnAttempted(spawnLog'.dt)) =>
         /\ zombiesCreated' = zombiesCreated + 1
               <=> \E i \in 1..MaxProbeAttempts : LandsOnGround(spawnLog'.probes, i)
         /\ zombiesCreated' \in {zombiesCreated, zombiesCreated + 1}
         /\ Len(zombies') = Len(zombies) + (zombiesCreated' - zombiesCreated)]_vars

\* with an Environment that has the property ground, the claim's statement
\* holds
SpawnIffProbeOnGroundMesh ==
    [][(step' = "update" /\ SpawnAttempted(spawnLog'.dt) /\ envGround = "mesh") =>
         (zombiesCreated' = zombiesCreated + 1
            <=> \E i \in 1..MaxProbeAttempts : LandsOnGround(spawnLog'.probes, i))]_vars

SpawnerStep ==
    /\ spawnInterval' <= spawnInterval
    /\ spawnInterval' >= MinSpawnInterval
    /\ step' = "update" =>
          LET dt == spawnLog'.dt
              scaled == (spawnInterval * 99) \div 100
          IN  IF (spawnTimer + dt) * 1000 > spawnInterval /\ Len(zombies) < maxZombies
              THEN /\ spawnTimer' = 0
                   /\ spawnInterval' = IF scaled < MinSpawnInterval
                                       THEN MinSpawnInterval ELSE scaled
              ELSE /\ spawnTimer' = spawnTimer + dt
                   /\ spawnInterval' = spawnInterval
    /\ step' # "update" => UNCHANGED <<spawnTimer, spawnInterval>>

\* C30: spawnInterval starts at 2.5 s, never grows and never goes below 0.5 s;
\* an update that attempts a spawn multiplies it by 0.99 once (not below the
\* floor) and sets spawnTimer to 0; every other update leaves the interval and
\* adds dt to spawnTimer, also with the list at the cap.
C30_IntervalAndTimer ==
    /\ spawnInterval = 2500000 /\ spawnTimer = 0
    /\ [][SpawnerStep]_vars

\* the list is full, the interval is at its floor and the timer has grown
\* over two updates without an attempt
C30_Witness ==
    /\ step = "update"
    /\ Len(zombies) = maxZombies
    /\ spawnInterval = MinSpawnInterval
    /\ spawnTimer > 2 * spawnLog.dt - 1
    /\ spawnTimer * 1000 > spawnInterval

(***************************************************************************)
(* The types of the hostiles                                               *)
(***************************************************************************)
\* one hostile, of a type drawn at and next to the thresholds, that takes a
\* hit in every frame of 0.2 s; a projectile fired before it ends in the ground
CfgTypes ==
    [dts |-> {200}, poss |-> {<<0, 0>>}, seeds |-> {0},
     rands |-> {700, 701, 900, 901},
     probes |-> {ProbesAll(Under(FALSE, TRUE))}, envs |-> {"ground"},
     zray |-> TRUE, ztouch |-> FALSE, htouch |-> FALSE, atouch |-> FALSE,
     reach |-> 0, maxTicks |-> MaxTypesTicks,
     maxHostiles |-> 1, maxSpawned |-> 1]

InitTypes == InitWith({0}, {"mesh"})

FrameTypes == Frame(CfgTypes)

NextTypes ==
    \/ FrameTypes
    \/ PointerDown

SpecTypes == InitTypes /\ [][NextTypes]_vars

\* the number of hits of 1 that a hostile of the type takes to die
HitsToDie(type) ==
    CASE type = "STANDARD" -> 3
      [] type = "FAST" -> 2
      [] type = "TANK" -> 10

\* a hostile has lost 1 health per hit and is dead from its 3rd, 2nd or 10th
\* hit on
DiesOnLastHit ==
    \A k \in 1..Len(zombies) :
       /\ zombies[k].type \in {"STANDARD", "FAST", "TANK"}
       /\ zombies[k].health = HitsToDie(zombies[k].type) - zombies[k].hits
       /\ zombies[k].dead <=> zombies[k].hits >= HitsToDie(zombies[k].type)

\* the hostile made in an update has the type of the draw r, in 1/1000
TypeOfDraw ==
    (step' = "update" /\ zombiesCreated' > zombiesCreated) =>
       \E k \in 1..Len(zombies') :
          /\ zombies'[k].id = zombiesCreated'
          /\ zombies'[k].type =
                IF spawnLog'.rand > 900 THEN "TANK"
                ELSE IF spawnLog'.rand > 700 THEN "FAST" ELSE "STANDARD"

\* C31: the type of a hostile follows from one draw r (TANK for r > 0.9, else
\* FAST for r > 0.7, else STANDARD) and gives its starting health 3, 2 or 10;
\* with 1 damage per hit it dies on its 3rd, 2nd or 10th hit and not before.
C31_TypeAndHealth == [](DiesOnLastHit) /\ [][TypeOfDraw]_vars

\* a TANK drawn just above 0.9 stands dead in the list, killed by its 10th hit
C31_Witness ==
    /\ step = "update"
    /\ spawnLog.rand = -1
    /\ Len(zombies) = 1
    /\ zombies[1].type = "TANK"
    /\ zombies[1].hits = 10
    /\ zombies[1].dead
    /\ \E h \in 1..Len(hitLog) : hitLog[h].hit = 1 /\ ~hitLog[h].before[1].dead

(***************************************************************************)
(* The damage flash                                                        *)
(***************************************************************************)
\* frames of 0.2 s with one STANDARD hostile; the projectiles in flight when
\* it appears all hit it in the same update
CfgFlash ==
    [dts |-> {200}, poss |-> {<<0, 0>>}, seeds |-> {0}, rands |-> {500},
     probes |-> {ProbesAll(Under(FALSE, TRUE))}, envs |-> {"none"},
     zray |-> TRUE, ztouch |-> FALSE, htouch |-> FALSE, atouch |-> FALSE,
     reach |-> 0, maxTicks |-> MaxFlashTicks,
     maxHostiles |-> 1, maxSpawned |-> 1]

InitFlash == InitWith({0}, {"mesh"})

NoPendingFlash == \A k \in 1..Len(zombies) : zombies[k].timers = <<>>

\* a frame lasts longer than the 100 ms of the flash, so the callbacks set in
\* one update have run when the next one starts
FrameFlash == NoPendingFlash /\ Frame(CfgFlash)

NextFlash ==
    \/ FrameFlash
    \/ PointerDown
    \/ FlashTimerFires

SpecFlash == InitFlash /\ [][NextFlash]_vars

\* C32: once every pending flash callback has run, a live hostile shows the
\* colour of its type again and no emissive flash, also after two hits less
\* than the flash delay apart.
C32_FlashCleared ==
    \A k \in 1..Len(zombies) :
       (~zombies[k].dead /\ zombies[k].timers = <<>>) =>
          (zombies[k].diffuse = "type" /\ zombies[k].emissive = "black")

\* the part of C32 that the callbacks do achieve: the emissive flash is gone
EmissiveCleared ==
    \A k \in 1..Len(zombies) :
       (~zombies[k].dead /\ zombies[k].timers = <<>>) => zombies[k].emissive = "black"

\* the callback of a hostile that has died leaves the hostile as it is, and
\* with it the list, the player, the environment, the score and the flags
DeadKeepsAll ==
    step' = "flashTimer" =>
       /\ Len(zombies') = Len(zombies)
       /\ \A k \in 1..Len(zombies) :
             zombies[k].dead =>
                /\ zombies'[k].dead
                /\ zombies'[k].health = zombies[k].health
                /\ zombies'[k].diffuse = zombies[k].diffuse
                /\ zombies'[k].emissive = zombies[k].emissive
                /\ zombies'[k].id = zombies[k].id
                /\ zombies'[k].type = zombies[k].type
       /\ UNCHANGED <<playerVars, envVars, spawnTimer, spawnInterval, appVars>>

\* C33: a flash callback that runs after its hostile has died changes nothing.
C33_LateFlashNoOp == [][DeadKeepsAll]_vars

\* the callback of the hit that killed the one hostile has just run
C33_Witness ==
    /\ step = "flashTimer"
    /\ Len(zombies) = 1
    /\ zombies[1].dead
    /\ zombies[1].timers = <<>>
    /\ zombies[1].diffuse = "red"
    /\ zombies[1].emissive = "flash"

(***************************************************************************)
(* The pitch of the camera                                                 *)
(***************************************************************************)
\* looking up and down in large and small moves, and firing in frames of 0.2 s
CfgLook ==
    [dts |-> {200}, poss |-> {<<0, 0>>}, seeds |-> {0}, rands |-> {500},
     probes |-> {ProbesAll(Under(FALSE, TRUE))}, envs |-> {"ground"},
     zray |-> FALSE, ztouch |-> FALSE, htouch |-> FALSE, atouch |-> FALSE,
     reach |-> 0, maxTicks |-> MaxLookTicks,
     maxHostiles |-> 1, maxSpawned |-> 1]

\* movementY of a pointer move, in pixels
LookMoves == {-749, 5, 749}

InitLook == InitWith({0}, {"mesh"})

FrameLook == Frame(CfgLook)

PointerMoveLook == PointerMove(LookMoves)

NextLook ==
    \/ FrameLook
    \/ PointerDown
    \/ PointerMoveLook

SpecLook == InitLook /\ [][NextLook]_vars

\* C34: after any sequence of look events and shots the pitch of the camera
\* lies within -1.5 and 1.5 rad.
C34_PitchClamped == pitch >= -PitchLimit /\ pitch <= PitchLimit

\* what the test of the pointer move does ensure: a look event never takes the
\* pitch out of the interval, and the pitch never rises above it
LookKeepsPitch ==
    /\ [][step' = "pointerMove" =>
            (pitch' = pitch \/ (pitch' > -PitchLimit /\ pitch' < PitchLimit))]_vars
    /\ [](pitch < PitchLimit)

\* the recoil of four shots has taken the camera past straight down (pi / 2)
PitchPastVertical == step = "update" /\ fireLog.fired /\ pitch < -1571

(***************************************************************************)
(* The lifetime of a projectile                                            *)
(***************************************************************************)
\* frames without end and nothing to hit: no hostile is ever made, because
\* the environment has no ground property, and the projectiles meet no mesh
CfgFlight ==
    [dts |-> {1000}, poss |-> {<<0, 0>>}, seeds |-> {0}, rands |-> {500},
     probes |-> {ProbesAll(Under(FALSE, TRUE))}, envs |-> {"none"},
     zray |-> FALSE, ztouch |-> FALSE, htouch |-> FALSE, atouch |-> FALSE,
     reach |-> 0, maxTicks |-> 0, maxHostiles |-> 1, maxSpawned |-> 1]

InitFlight == InitWith({0}, {"undefined"})

FrameFlight == Frame(CfgFlight)

NextFlight ==
    \/ FrameFlight
    \/ PointerDown
    \/ PointerUp

\* the engine keeps calling the frame callback, which is enabled in every
\* state here: updates go on for ever
TicksRun == []<><<step' = "update">>_vars

SpecFlight == InitFlight /\ [][NextFlight]_vars /\ TicksRun

\* an update in which no projectile hits anything ages each projectile by dt,
\* the one fired in it too, and keeps exactly those with lifetime left
FlightStep ==
    (step' = "update" /\ RemovedByHit(hitLog') = {}) =>
       bullets' = SelectSeq(Aged(bullets, fireLog'.fired, spawnLog'.dt),
                            LAMBDA b : b.life > 0)

\* a projectile of the list has flown for less than 2 s, and the shots were
\* more than fireRate apart
FlightBounded ==
    /\ \A i \in 1..Len(bullets) : bullets[i].life > 0 /\ bullets[i].life < lifeTime
    /\ \A i \in 1..Len(bullets) - 1 : bullets[i].life + fireRate <= bullets[i + 1].life
    /\ (Len(bullets) - 1) * fireRate < lifeTime

\* C35: a projectile that hits nothing leaves the list in the first update in
\* which its flight time reaches 2 s and not before, the list stays bounded,
\* and with frames going on every projectile is removed in the end.
C35_ProjectileExpires ==
    /\ [][FlightStep]_vars
    /\ [](FlightBounded)
    /\ <>[](bullets = <<>>)

\* two frames of 1 s: the projectile fired in the first one has flown for
\* exactly 2 s and left, the one fired in the second one is in the list
C35_Witness ==
    /\ step = "update"
    /\ spawnLog.dt = 1000
    /\ fireLog.nBefore = 1
    /\ fireLog.fired
    /\ Len(bullets) = 1
    /\ bullets[1].life = 1000

(***************************************************************************)
(* The health of the player                                                *)
(***************************************************************************)
\* the health is 100 at the start and never above
HealthCapped ==
    /\ health <= MaxHealth
    /\ step = "init" => health = InitialHealth

\* an update raises the health only through a health pack, by at most 25 a
\* pack; any other step leaves it alone
HealthRisesByPack ==
    /\ step' # "update" => health' = health
    /\ (step' = "update" /\ health' > health) =>
          /\ pickLog'.touchH # {}
          /\ health' <= health + HealthPackRestore * Cardinality(pickLog'.touchH)

\* C36: the health of the player never exceeds 100: it starts at 100, damage
\* lowers it, and a health pack sets it to min(100, health + 25).
C36_HealthAtMost100 == [](HealthCapped) /\ [][HealthRisesByPack]_vars

\* a pack taken with more than 75 health left: the cap has cut the restore
C36_Witness ==
    /\ step = "update"
    /\ pickLog.touchH # {}
    /\ pickLog.healthBefore > MaxHealth - HealthPackRestore
    /\ pickLog.healthBefore < MaxHealth
    /\ pickLog.hlog[Len(pickLog.hlog)].after = MaxHealth
    /\ health = MaxHealth

(***************************************************************************)
(* Game over                                                               *)
(***************************************************************************)
\* C37: at the end of every update isGameOver holds exactly when the health
\* of the player is at or below 0, and gameOver() is entered at most once in
\* a session.
C37_GameOverIffDead ==
    /\ step = "update" => (isGameOver <=> health <= 0)
    /\ gameOverCalls <= 1

\* the two halves of C37, each of which fails on its own
GameOverIffNoHealth == step = "update" => (isGameOver <=> health <= 0)

GameOverEnteredOnce == gameOverCalls <= 1

\* what does hold: the flag is set in the update in which a hostile brings the
\* health to 0 or below, and never without that
GameOverFromDamage ==
    /\ [][(step' = "update" /\ isGameOver' /\ ~isGameOver) =>
             (touchLog' # {} /\ gameOverCalls' >= 1)]_vars
    /\ [](isGameOver <=> gameOverCalls >= 1)

(***************************************************************************)
(* The meshes of disposed chunks                                           *)
(***************************************************************************)
\* the meshes of the three aggregate lists
AggregateMeshes == Range(obstacles) \cup Range(healthPacks) \cup Range(ammoPacks)

\* every mesh of an aggregate list is in the same list of a held chunk
AggregatesOfHeldChunks ==
    /\ Range(obstacles) \subseteq
          UNION {Range(chunks[k].obstacles) : k \in DOMAIN chunks}
    /\ Range(healthPacks) \subseteq
          UNION {Range(chunks[k].healthPacks) : k \in DOMAIN chunks}
    /\ Range(ammoPacks) \subseteq
          UNION {Range(chunks[k].ammoPacks) : k \in DOMAIN chunks}

\* C38: after any sequence of Environment.update calls and pickups, no
\* aggregate list (obstacles, healthPacks, ammoPacks) and no result of
\* getGroundMeshes holds a mesh owned by a disposed chunk.
C38_NoMeshOfDisposedChunk ==
    /\ AggregatesOfHeldChunks
    /\ AggregateMeshes \cap disposedMeshes = {}
    /\ getGroundMeshes(CurEnv) \cap disposedMeshes = {}
    /\ getGroundMeshes(CurEnv) = {GroundMesh(chunks[k].id) : k \in DOMAIN chunks}

\* the player took the ammo pack of chunk (0, 0) in an earlier update, and
\* this update, far away, disposes that chunk
C38_Witness ==
    /\ step = "update"
    /\ pos = <<180, 0>>
    /\ <<0, 0>> \in envLog.disposed
    /\ reserveAmmo = InitialReserveAmmo + AmmoPackAmount
    /\ pickLog.touchA = {}
    /\ \E c \in 1..25 :
          /\ AmmoPackMesh(c) \in disposedMeshes
          /\ \A k \in DOMAIN chunks : chunks[k].id # c

(***************************************************************************)
(* The pause                                                               *)
(***************************************************************************)
\* the simulation state that C39 names
PausedState ==
    <<currentAmmo, reserveAmmo, isReloading, health, score, zombies, bullets,
      DOMAIN chunks>>

\* C39: between a pause and the following resume the simulation state (the
\* two ammo counters, the reloading flag, health, score, the hostile list, the
\* projectile list, the chunk set) does not change, whatever input events or
\* timers occur while the game is paused.
C39_PausedNothingChanges == [][(isPaused /\ isPaused') => UNCHANGED PausedState]_vars

\* what does hold: while the game is paused only the reload key and the reload
\* timer change this state, and only the reloading flag and the two counters
OnlyReloadWhilePaused ==
    [][(isPaused /\ isPaused') =>
          /\ UNCHANGED <<health, score, zombies, bullets, chunks>>
          /\ step' \notin {"keyR", "reloadDone"} => UNCHANGED PausedState
          /\ step' = "keyR" => UNCHANGED <<currentAmmo, reserveAmmo>>]_vars

====
